---- MODULE Spec2Model ----
(***************************************************************************)
(* Model of the structural similarity engine DOMSimHash                    *)
(* (src/unnamed/part_001, lines 189-524): feature extraction, the 32-bit   *)
(* simhash fingerprint, the Hamming distance, and the run detector         *)
(* findSimilarSequence / findAllSimilarSequences; and of the run folding   *)
(* and budget enforcement of the outline generator built on it.            *)
(*                                                                         *)
(* Strings are sequences of one-character strings, so that the DJB2 hash   *)
(* can be computed from character codes.  Array indices are 0-based as in  *)
(* the source; At(s, k) reads element k of a 0-based array.                *)
(***************************************************************************)
EXTENDS Integers, Sequences, FiniteSets, TLC

\* ------------------------------------------------------------------------
\* Bounds of the model
\* ------------------------------------------------------------------------

\* greatest number of siblings handed to the run detector
MaxLen == 6

\* ------------------------------------------------------------------------
\* Strings and 32-bit numbers
\* ------------------------------------------------------------------------

HASH_BITS == 32

\* String.prototype.charCodeAt for the characters feature strings are made of
charCodeAt ==
  LET lower == <<"a","b","c","d","e","f","g","h","i","j","k","l","m",
                 "n","o","p","q","r","s","t","u","v","w","x","y","z">>
      digit == <<"0","1","2","3","4","5","6","7","8","9">>
  IN [c \in {lower[k] : k \in 1..26} \cup {digit[k] : k \in 1..10}
            \cup {">", "+", "-"} |->
       CASE c = ">" -> 62
         [] c = "+" -> 43
         [] c = "-" -> 45
         [] c \in {digit[k] : k \in 1..10} ->
              47 + (CHOOSE k \in 1..10 : digit[k] = c)
         [] OTHER -> 96 + (CHOOSE k \in 1..26 : lower[k] = c)]

\* Number-to-string conversion of a non-negative integer (template literal,
\* Array.prototype.join)
RECURSIVE NumStr(_)
NumStr(n) ==
  LET digit == <<"0","1","2","3","4","5","6","7","8","9">>
  IN IF n < 10 THEN <<digit[n + 1]>>
     ELSE NumStr(n \div 10) \o <<digit[(n % 10) + 1]>>

\* Array.prototype.join
RECURSIVE Join(_, _)
Join(strs, sep) ==
  IF Len(strs) = 0 THEN <<>>
  ELSE IF Len(strs) = 1 THEN strs[1]
  ELSE strs[1] \o sep \o Join(Tail(strs), sep)

\* Array.prototype.slice(0, n)
Slice0(s, n) == SubSeq(s, 1, IF Len(s) < n THEN Len(s) ELSE n)

\* element k of a 0-based array
At(s, k) == s[k + 1]

\* 1 << i for 0 <= i < 31
shl1 == <<1, 2, 4, 8, 16, 32, 64, 128, 256, 512, 1024, 2048, 4096, 8192,
          16384, 32768, 65536, 131072, 262144, 524288, 1048576, 2097152,
          4194304, 8388608, 16777216, 33554432, 67108864, 134217728,
          268435456, 536870912, 1073741824>>

\* bit 0..31 of a signed 32-bit integer: (x >> bit) & 1
Bit(x, bit) ==
  IF bit = 31 THEN (IF x < 0 THEN 1 ELSE 0) ELSE (x \div shl1[bit + 1]) % 2

\* x | (1 << bit) for a bit that is clear in x; 1 << 31 is -2^31
OrBit(x, bit) ==
  IF bit = 31 THEN (x - shl1[31]) - shl1[31] ELSE x + shl1[bit + 1]

\* x >> 1, the shift that keeps the sign
Sshr1(x) == IF x % 2 = 0 THEN x \div 2 ELSE (x - 1) \div 2

\* x >>> 1 on a signed 32-bit integer: the unsigned value shifted right
Ushr1(x) == IF x >= 0 THEN x \div 2 ELSE ((x \div 2) + shl1[31]) + shl1[31]

\* a ^ b on signed 32-bit integers
RECURSIVE XorFrom(_, _, _)
XorFrom(a, b, bit) ==
  IF bit < 0 THEN 0
  ELSE LET rest == XorFrom(a, b, bit - 1)
       IN IF Bit(a, bit) # Bit(b, bit) THEN OrBit(rest, bit) ELSE rest

\* the first operand alone, the second one ignored
FirstOperand(a, b) == a

Xor32(a, b) == XorFrom(a, b, HASH_BITS - 1)

\* ------------------------------------------------------------------------
\* ElementNode and the sibling kinds the inputs are drawn from
\* ------------------------------------------------------------------------

\* type labels
listitem == <<"l","i","s","t","i","t","e","m">>
button   == <<"b","u","t","t","o","n">>
link     == <<"l","i","n","k">>
text     == <<"t","e","x","t">>
img      == <<"i","m","g">>
heading  == <<"h","e","a","d","i","n","g">>
checkbox == <<"c","h","e","c","k","b","o","x">>
radio    == <<"r","a","d","i","o">>

CursorPointer == "[cursor=pointer]"

\* An ElementNode: the fields DOMSimHash reads (type, line, children) and the
\* node's identity (id), which is the key of the hash cache.  The line is
\* kept as its parts: the text excerpt, the reference token and the set of
\* bracketed markers it carries.
Node(id, type, txt, markers, children) ==
  [id |-> id, type |-> type,
   line |-> [text |-> txt, ref |-> id, markers |-> markers],
   children |-> children]

\* String.prototype.includes on a node's line, for a bracketed marker
LineIncludes(line, marker) == marker \in line.markers

\* The kinds of sibling: a plain list item, a clickable list item, a button,
\* and a product card (a list item holding a link, an image and a button).
Kinds == {"item", "clickable", "button", "card"}

\* sibling number k (0-based) of the given kind; its text is "Product k"
MkNode(kind, k) ==
  CASE kind = "item"      -> Node(k, listitem, k, {}, <<>>)
    [] kind = "clickable" -> Node(k, listitem, k, {CursorPointer}, <<>>)
    [] kind = "button"    -> Node(k, button, k, {}, <<>>)
    [] kind = "card"      -> Node(k, listitem, 0, {},
                                  <<Node(100 + k, link, k, {}, <<>>),
                                    Node(200 + k, img, 0, {}, <<>>),
                                    Node(300 + k, button, 0, {}, <<>>)>>)

\* ------------------------------------------------------------------------
\* Feature extraction
\* ------------------------------------------------------------------------

\* the types of the given nodes (children.map(c => c.type))
Types(ns) == [k \in 1..Len(ns) |-> ns[k].type]

\* a skeleton signature that carries the text of the node's line: C35 does
\* not hold if the text is among the features
getSkeletonWithText(node) ==
  node.type \o <<">">> \o NumStr(node.line.text)

getSkeletonSignature(node) ==
  LET childTypes == Join(Types(Slice0(node.children, 5)), <<"+">>)
      sig1 == IF childTypes # <<>> THEN node.type \o <<">">> \o childTypes
              ELSE node.type
  IN IF Len(node.children) > 0 /\ Len(node.children[1].children) > 0
     THEN sig1 \o <<">">>
               \o Join(Types(Slice0(node.children[1].children, 3)), <<"+">>)
     ELSE sig1

getShapeSignature(node) ==
  LET n == IF Len(node.children) < 3 THEN Len(node.children) ELSE 3
      widths == <<Len(node.children)>>
                \o [k \in 1..n |-> Len(node.children[k].children)]
  IN <<"w">> \o Join([k \in 1..Len(widths) |-> NumStr(widths[k])], <<"-">>)

\* number of nodes of type t met by count(n, depth); CountIn is the forEach
\* over the first k children
RECURSIVE CountType(_, _, _), CountIn(_, _, _, _)
CountType(n, depth, t) ==
  IF depth > 2 THEN 0
  ELSE (IF n.type = t THEN 1 ELSE 0)
       + CountIn(n.children, Len(n.children), depth + 1, t)
CountIn(children, k, depth, t) ==
  IF k = 0 THEN 0
  ELSE CountIn(children, k - 1, depth, t) + CountType(children[k], depth, t)

important == <<button, link, text, img, heading, checkbox, radio>>

getTypeCountSignature(node) ==
  LET part(t) == LET c == CountType(node, 0, t)
                 IN IF c > 0 THEN <<t[1]>> \o NumStr(c) ELSE <<>>
      sig == Join([k \in 1..Len(important) |-> part(important[k])], <<>>)
  IN IF sig # <<>> THEN sig ELSE <<"e","m","p","t","y">>

RECURSIVE check(_, _)
check(n, depth) ==
  IF depth > 2 THEN FALSE
  ELSE IF n.type = button \/ n.type = link \/ n.type = checkbox \/ n.type = radio
       THEN TRUE
       ELSE \E k \in 1..Len(n.children) : check(n.children[k], depth + 1)

hasInteractiveElements(node) ==
  IF LineIncludes(node.line, CursorPointer) THEN TRUE ELSE check(node, 0)

RECURSIVE getMaxDepth(_)
getMaxDepth(node) ==
  IF Len(node.children) = 0 THEN 0
  ELSE LET ds == {getMaxDepth(node.children[k]) : k \in 1..Len(node.children)}
       IN 1 + CHOOSE d \in ds : \A e \in ds : e <= d

extractFeatures(node) ==
  <<getSkeletonSignature(node), getShapeSignature(node),
    getTypeCountSignature(node)>>
  \o (IF hasInteractiveElements(node)
      THEN << <<"i","n","t","e","r","a","c","t","i","v","e">> >> ELSE <<>>)
  \o << <<"d">> \o NumStr(getMaxDepth(node)) >>

\* ------------------------------------------------------------------------
\* Fingerprint
\* ------------------------------------------------------------------------

\* The DJB2 hash, an unsigned 32-bit integer (hash >>> 0), held as its two
\* 16-bit halves hi * 65536 + lo.  One step is hash * 33 + c modulo 2^32;
\* djb2Upto(str, k) is the hash after the first k characters.
RECURSIVE djb2Upto(_, _)
djb2Upto(str, k) ==
  IF k = 0 THEN [hi |-> 0, lo |-> 5381]
  ELSE LET hash == djb2Upto(str, k - 1)
           lo == hash.lo * 33 + charCodeAt[str[k]]
           hi == hash.hi * 33 + (lo \div 65536)
       IN [hi |-> hi % 65536, lo |-> lo % 65536]

djb2Hash(str) == djb2Upto(str, Len(str))

\* (hash >> bit) & 1 for a DJB2 hash
HashBit(hash, bit) ==
  IF bit < 16 THEN (hash.lo \div shl1[bit + 1]) % 2
  ELSE (hash.hi \div shl1[bit - 15]) % 2

\* String.prototype.includes / startsWith for one character
Includes(str, c) == \E k \in 1..Len(str) : str[k] = c
StartsWith(str, c) == Len(str) > 0 /\ str[1] = c

getWeight(feature) ==
  IF Includes(feature, ">") THEN 5
  ELSE IF StartsWith(feature, "w") THEN 3
  ELSE IF StartsWith(feature, "d") THEN 2
  ELSE 1

\* vector[bit] after the first k features have been added; hashes[k] is the
\* DJB2 hash of feature k
RECURSIVE Vector(_, _, _, _)
Vector(features, hashes, k, bit) ==
  IF k = 0 THEN 0
  ELSE Vector(features, hashes, k - 1, bit)
       + (IF HashBit(hashes[k], bit) = 1 THEN getWeight(features[k])
          ELSE 0 - getWeight(features[k]))

\* the bits lo..hi of the fingerprint, had the test been vector[i] >= 0
RECURSIVE simhashBitsNonNegative(_, _, _, _)
simhashBitsNonNegative(features, hashes, lo, hi) ==
  IF lo = hi
  THEN IF Vector(features, hashes, Len(features), lo) >= 0 THEN OrBit(0, lo) ELSE 0
  ELSE LET mid == (lo + hi) \div 2
       IN simhashBitsNonNegative(features, hashes, mid + 1, hi)
          + simhashBitsNonNegative(features, hashes, lo, mid)

\* the bits lo..hi of the fingerprint: bit i is set iff vector[i] > 0.  The
\* loop over i is split in halves; bits are independent of one another.
RECURSIVE simhashBits(_, _, _, _)
simhashBits(features, hashes, lo, hi) ==
  IF lo = hi
  THEN IF Vector(features, hashes, Len(features), lo) > 0 THEN OrBit(0, lo) ELSE 0
  ELSE LET mid == (lo + hi) \div 2
       IN simhashBits(features, hashes, mid + 1, hi)
          + simhashBits(features, hashes, lo, mid)

\* the fingerprint computed from a node's structure (lines 351-370)
simhashOf(node) ==
  LET features == extractFeatures(node)
      hashes == [k \in 1..Len(features) |-> djb2Hash(features[k])]
  IN IF Len(hashes) = 0 THEN 0
     ELSE simhashBits(features, hashes, 0, HASH_BITS - 1)

\* every node a sibling list can hold
NodePool == {MkNode(kind, k) : kind \in Kinds, k \in 0..MaxLen}

\* the graph of simhashOf over the node pool: the fingerprint of each node
\* is computed once and looked up afterwards
simhash == {<<node, simhashOf(node)>> : node \in NodePool}

freshHash(node) == (CHOOSE p \in simhash : p[1] = node)[2]

\* computeHash without the test of line 347: the fingerprint is computed anew
\* at every call
computeHashAnew(cache, node) == freshHash(node)

\* computeHash with the cache: the cached value if the node is cached
computeHash(cache, node) ==
  IF node.id \in DOMAIN cache THEN cache[node.id] ELSE freshHash(node)

\* the cache after computeHash(node), had the value been stored before the
\* reduction loop, when simhash is still 0
cacheBeforeReduction(cache, node) ==
  IF node.id \in DOMAIN cache THEN cache
  ELSE cache @@ (node.id :> 0)

\* the cache after computeHash(node) (line 372)
cacheAfter(cache, node) ==
  IF node.id \in DOMAIN cache THEN cache
  ELSE cache @@ (node.id :> freshHash(node))

RECURSIVE popcount(_, _)
popcount(xor, count) ==
  IF xor = 0 THEN count ELSE popcount(Ushr1(xor), count + (xor % 2))

hammingDistance(hash1, hash2) == popcount(Xor32(hash1, hash2), 0)

\* the graph of hammingDistance over the fingerprints of the node pool
Fingerprints == {p[2] : p \in simhash}
distances == {<<hash1, hash2, hammingDistance(hash1, hash2)>> :
                hash1 \in Fingerprints, hash2 \in Fingerprints}

distanceOf(hash1, hash2) ==
  (CHOOSE d \in distances : d[1] = hash1 /\ d[2] = hash2)[3]

\* lines 394-399; the fingerprints are the ones computeHash yields
areSimilar(node1, node2, threshold) ==
  distanceOf(freshHash(node1), freshHash(node2)) <= threshold

\* ------------------------------------------------------------------------
\* Run detector: state
\* ------------------------------------------------------------------------

VARIABLES
  nodes,        \* the sibling list handed to the entry point
  call,         \* the entry point called: findSimilarSequence or findAllSimilarSequences
  pc,           \* "idle", "loop", "scan", "returned", "done"
  hashCache,    \* DOMSimHash.hashCache: node identity -> fingerprint
  \* findAllSimilarSequences
  processed,    \* set of original indices already claimed
  sequences,    \* the runs pushed so far
  indexMap,     \* position in the unprocessed list -> original index
  iterations,   \* number of times the body of the main loop was entered
  members,      \* members[r]: the original indices sequences[r] was made of
  \* findSimilarSequence
  list,         \* its argument
  i, j, similarCount,
  maxLen, bestStart, bestEnd, bestBaseHash,
  result,       \* its return value: <<>> is null, <<run>> a run
  \* hammingDistance called on its own
  hd,           \* its arguments hash1, hash2, its locals xor, count, and ret
  \* computeHash called on its own
  \* generate
  gen,          \* its position phase, its inputs maxLines and noRef (the
                \* siblings whose line carries no [ref=...] marker), the
                \* groups folded, the lines after folding (folded) and the
                \* lines still to be emitted (lines)
  ch,           \* its argument node, its return value ret, returned:
                \* identity -> value returned since the cache was last
                \* cleared, and again: node was in returned at the call
  \* the outline generator's tree builder and wrapper removal
  tb,
  \* searchSnapshot and the search tool handler
  search,
  \* the execute tool: user state, browser, VM run
  exec,
  \* ScopedFS and the sandboxed require
  sfs,
  \* browserLogs of browser-logs.ts: page id -> stored console logs
  browserLogs,
  \* a NetworkCapture and the requests of the page it listens to
  capture,
  \* the aria-ref label overlay of a page and its auto-hide timers
  labels,
  \* a BrowserManager: browser, context, page, last snapshot and the calls
  \* in progress
  mgr

vars == <<nodes, call, pc, hashCache, processed, sequences, indexMap,
          iterations, members, list, i, j, similarCount, maxLen, bestStart,
          bestEnd, bestBaseHash, result, hd, ch, gen, tb, search, exec, sfs,
          browserLogs, capture, labels, mgr>>

toolVars == <<tb, search, exec, sfs>>

pageVars == <<browserLogs, capture, labels, mgr>>

allVars == <<processed, sequences, indexMap, iterations, members>>
scanVars == <<list, i, j, similarCount, maxLen, bestStart, bestEnd,
              bestBaseHash, result>>

engineVars == <<nodes, call, pc, hashCache, allVars, scanVars, hd, ch, gen>>

null == <<>>

\* a run of two: C8 does not hold if a pair of siblings makes a run
PairLength == 1 + 1

\* the smallest number of siblings that make a run: the literal 3 of lines
\* 411, 419, 432, 438, 446 and 488
MinRunLength == 3

\* a threshold of 4: C9_MembersSimilarToAnchor does not hold with it
withinFour(distance) == distance <= 4

\* distance <= 3 (line 429)
withinThreshold(distance) == distance <= 3

\* recording the first run only: C4 does not hold if a run that is being
\* extended cannot replace the recorded one
isFirstBest(count, best) == count >= 3 /\ best = 0

\* similarCount >= 3 && similarCount > maxLen (line 432)
isNewBest(count, best) == count >= MinRunLength /\ count > best

\* else if (similarCount >= 3) break (line 438)
stopsExtension(count) == count >= MinRunLength

\* ------------------------------------------------------------------------
\* findSimilarSequence
\* ------------------------------------------------------------------------

\* One pass of the while loop of lines 425-443 for anchor a with fingerprint
\* baseHash.  s holds the locals and the cache; s.broke records the break.
ScanStep(ns, a, baseHash, s) ==
  LET node == At(ns, s.j)
      cache1 == cacheAfter(s.cache, node)
      distance == distanceOf(baseHash, cache1[node.id])
  IN IF withinThreshold(distance)
     THEN LET count == s.similarCount + 1
          IN IF isNewBest(count, s.maxLen)
             THEN [s EXCEPT !.cache = cache1, !.similarCount = count,
                            !.maxLen = count, !.bestStart = a,
                            !.bestEnd = s.j, !.bestBaseHash = baseHash,
                            !.j = s.j + 1]
             ELSE [s EXCEPT !.cache = cache1, !.similarCount = count,
                            !.j = s.j + 1]
     ELSE IF stopsExtension(s.similarCount)
          THEN [s EXCEPT !.cache = cache1, !.broke = TRUE]
          ELSE [s EXCEPT !.cache = cache1, !.j = s.j + 1]

\* the while loop of lines 425-443, from the locals t.  (The locals are bound
\* by a quantifier over a one-element set, which evaluates them once.)
RECURSIVE ScanWhile(_, _, _, _)
ScanWhile(ns, a, baseHash, s) ==
  CHOOSE end \in {IF t.broke \/ ~(t.j < Len(ns)) THEN t
                  ELSE ScanWhile(ns, a, baseHash, ScanStep(ns, a, baseHash, t)) :
                  t \in {s}} : TRUE

\* the body of the for loop of line 419 for anchor a (lines 420-443)
ScanFromAnchor(ns, a, cache, best) ==
  LET cache0 == cacheAfter(cache, At(ns, a))
  IN ScanWhile(ns, a, cache0[At(ns, a).id],
               [j |-> a + 1, similarCount |-> 1, broke |-> FALSE,
                cache |-> cache0, maxLen |-> best.maxLen,
                bestStart |-> best.bestStart, bestEnd |-> best.bestEnd,
                bestBaseHash |-> best.bestBaseHash])

\* returning the record without the test of line 446: C11 does not hold
\* if a record that was never set is returned as a run
OutcomeUnchecked(ns, len, start, end, baseHash) ==
  << [start |-> start, end |-> end,
      samples |-> SubSeq(ns, start + 1, end + 1), baseHash |-> baseHash] >>

\* lines 446-455
Outcome(ns, len, start, end, baseHash) ==
  IF len >= MinRunLength
  THEN << [start |-> start, end |-> end,
           samples |-> SubSeq(ns, start + 1, end + 1),
           baseHash |-> baseHash] >>
  ELSE null

\* entry of findSimilarSequence(ns): lines 411-416
Enter(ns) ==
  /\ list' = ns
  /\ IF Len(ns) < MinRunLength
     THEN /\ pc' = "returned"
          /\ result' = null
          /\ UNCHANGED <<i, j, similarCount, maxLen, bestStart, bestEnd,
                         bestBaseHash>>
     ELSE /\ pc' = "scan"
          /\ i' = 0
          /\ maxLen' = 0
          /\ bestStart' = 0
          /\ bestEnd' = 0
          /\ bestBaseHash' = 0
          /\ UNCHANGED <<j, similarCount, result>>

CallFindSimilarSequence ==
  /\ pc = "idle"
  /\ call' = "findSimilarSequence"
  /\ Enter(nodes)
  /\ UNCHANGED <<pageVars, toolVars, nodes, hd, ch, gen, hashCache, allVars>>

ScanAnchor ==
  /\ pc = "scan"
  /\ i <= Len(list) - MinRunLength
  /\ \E s \in {ScanFromAnchor(list, i, hashCache,
                               [maxLen |-> maxLen, bestStart |-> bestStart,
                                bestEnd |-> bestEnd,
                                bestBaseHash |-> bestBaseHash])} :
       /\ hashCache' = s.cache
       /\ j' = s.j
       /\ similarCount' = s.similarCount
       /\ maxLen' = s.maxLen
       /\ bestStart' = s.bestStart
       /\ bestEnd' = s.bestEnd
       /\ bestBaseHash' = s.bestBaseHash
  /\ i' = i + 1
  /\ UNCHANGED <<pageVars, toolVars, nodes, hd, ch, gen, call, pc, list, result, allVars>>

Return ==
  /\ pc = "scan"
  /\ ~(i <= Len(list) - MinRunLength)
  /\ result' = Outcome(list, maxLen, bestStart, bestEnd, bestBaseHash)
  /\ pc' = "returned"
  /\ UNCHANGED <<pageVars, toolVars, nodes, hd, ch, gen, call, hashCache, allVars, list, i, j, similarCount,
                 maxLen, bestStart, bestEnd, bestBaseHash>>

\* ------------------------------------------------------------------------
\* findAllSimilarSequences
\* ------------------------------------------------------------------------

\* the original indices not yet processed, in order (lines 478-486)
RECURSIVE Collect(_, _, _)
Collect(n, done, k) ==
  IF k = 0 THEN <<>>
  ELSE IF (k - 1) \in done THEN Collect(n, done, k - 1)
       ELSE Append(Collect(n, done, k - 1), k - 1)

\* an inclusive loop test: C6 does not hold if the loop is entered once more
\* after every sibling is processed
loopGuardInclusive(size, length) == size <= length

\* one pass only: C34 does not hold if the main loop is left after the first
\* run
loopGuardOnce(size, length) == size = 0 /\ size < length

\* while (processed.size < nodes.length) (line 477)
loopGuard(size, length) == size < length

\* marking all but the last member (k < seq.end): C2 does not hold with it
MarkedButLast(map, seq) == {At(map, k) : k \in seq.start..(seq.end - 1)}

\* the indices marked processed for a run (lines 506-508)
Marked(map, seq) == {At(map, k) : k \in seq.start..seq.end}

CallFindAllSimilarSequences ==
  /\ pc = "idle"
  /\ call' = "findAllSimilarSequences"
  /\ pc' = "loop"
  /\ processed' = {}
  /\ sequences' = <<>>
  /\ UNCHANGED <<pageVars, toolVars, nodes, hd, ch, gen, hashCache, indexMap, iterations, members, scanVars>>

LoopExit ==
  /\ pc = "loop"
  /\ ~loopGuard(Cardinality(processed), Len(nodes))
  /\ pc' = "done"
  /\ UNCHANGED <<pageVars, toolVars, nodes, hd, ch, gen, call, hashCache, allVars, scanVars>>

LoopBreakShort ==
  /\ pc = "loop"
  /\ loopGuard(Cardinality(processed), Len(nodes))
  /\ LET map == Collect(nodes, processed, Len(nodes))
     IN /\ Len(map) < MinRunLength
        /\ indexMap' = map
  /\ iterations' = iterations + 1
  /\ pc' = "done"
  /\ UNCHANGED <<pageVars, toolVars, nodes, hd, ch, gen, call, hashCache, processed, sequences, members,
                 scanVars>>

LoopCall ==
  /\ pc = "loop"
  /\ loopGuard(Cardinality(processed), Len(nodes))
  /\ LET map == Collect(nodes, processed, Len(nodes))
     IN /\ ~(Len(map) < MinRunLength)
        /\ indexMap' = map
        /\ Enter([k \in 1..Len(map) |-> At(nodes, map[k])])
  /\ iterations' = iterations + 1
  /\ UNCHANGED <<pageVars, toolVars, nodes, hd, ch, gen, call, hashCache, processed, sequences, members>>

FoldRun ==
  /\ pc = "returned"
  /\ call = "findAllSimilarSequences"
  /\ result # null
  /\ LET seq == result[1]
         actualStart == At(indexMap, seq.start)
         actualEnd == At(indexMap, seq.end)
     IN /\ sequences' = Append(sequences,
                               [start |-> actualStart, end |-> actualEnd,
                                count |-> seq.end - seq.start + 1,
                                sample |-> At(nodes, actualStart)])
        /\ members' = Append(members,
                             {At(indexMap, k) : k \in seq.start..seq.end})
        /\ processed' = processed \cup Marked(indexMap, seq)
  /\ pc' = "loop"
  /\ UNCHANGED <<pageVars, toolVars, nodes, hd, ch, gen, call, hashCache, indexMap, iterations, scanVars>>

NoRunBreak ==
  /\ pc = "returned"
  /\ call = "findAllSimilarSequences"
  /\ result = null
  /\ pc' = "done"
  /\ UNCHANGED <<pageVars, toolVars, nodes, hd, ch, gen, call, hashCache, allVars, scanVars>>

\* ------------------------------------------------------------------------
\* hammingDistance, statement by statement, and computeHash / clearCache
\* ------------------------------------------------------------------------

runVars == <<nodes, hashCache, allVars, scanVars>>

\* let xor = hash1 ^ hash2; let count = 0 (lines 380-381)
CallHammingDistance ==
  /\ pc = "idle"
  /\ call' = "hammingDistance"
  /\ hd' = [hd EXCEPT !.xor = Xor32(hd.hash1, hd.hash2), !.count = 0]
  /\ pc' = "count"
  /\ UNCHANGED <<pageVars, toolVars, runVars, gen, ch>>

\* one pass of while (xor): count += xor & 1; xor >>>= 1 (lines 383-386)
CountBit ==
  /\ pc = "count"
  /\ hd.xor # 0
  /\ hd' = [hd EXCEPT !.count = hd.count + (hd.xor % 2),
                      !.xor = Ushr1(hd.xor)]
  /\ UNCHANGED <<pageVars, toolVars, runVars, gen, ch, call, pc>>

\* return count (line 388)
ReturnCount ==
  /\ pc = "count"
  /\ hd.xor = 0
  /\ hd' = [hd EXCEPT !.ret = hd.count]
  /\ pc' = "returned"
  /\ UNCHANGED <<pageVars, toolVars, runVars, gen, ch, call>>

\* computeHash(nodes[k]) called on its own (lines 345-374)
CallComputeHash(k) ==
  /\ pc = "idle"
  /\ call' = "computeHash"
  /\ LET node == nodes[k]
         ret == computeHash(hashCache, node)
     IN /\ hashCache' = cacheAfter(hashCache, node)
        /\ ch' = [node |-> node, ret |-> ret,
                  again |-> node.id \in DOMAIN ch.returned,
                  returned |-> IF node.id \in DOMAIN ch.returned
                               THEN [ch.returned EXCEPT ![node.id] = ret]
                               ELSE ch.returned @@ (node.id :> ret)]
  /\ UNCHANGED <<pageVars, toolVars, nodes, hd, gen, pc, allVars, scanVars>>

\* the caller changes sibling k between two calls: the node object is the
\* same (its identity is kept), its type, line and subtree become those of
\* another kind
ChangeNode(k, kind) ==
  /\ pc = "idle"
  /\ MkNode(kind, k - 1) # nodes[k]
  /\ nodes' = [nodes EXCEPT ![k] = MkNode(kind, k - 1)]
  /\ call' = "change"
  /\ UNCHANGED <<pageVars, toolVars, hashCache, ch, hd, gen, pc, allVars, scanVars>>

\* clearCache() (lines 521-523)
ClearCache ==
  /\ pc = "idle"
  /\ call' = "clearCache"
  /\ hashCache' = [k \in {} |-> 0]
  /\ ch' = [ch EXCEPT !.returned = [k \in {} |-> 0]]
  /\ UNCHANGED <<pageVars, toolVars, nodes, hd, gen, pc, allVars, scanVars>>

\* ------------------------------------------------------------------------
\* Outline generator: run folding and budget enforcement of
\* SmartOutlineSimple.generate, on one sibling level.  The siblings carry no
\* wrapper and no text beyond the truncation cap, so wrapper removal and text
\* truncation leave them as they are.
\* ------------------------------------------------------------------------

\* the reference token on the line of sibling k: none if the line carries no
\* [ref=...] marker
RefOf(k) == IF k \in gen.noRef THEN <<>> ELSE <<At(nodes, k).line.ref>>

\* the reference tokens of the siblings from..to but the last
RECURSIVE RefsButLast(_, _)
RefsButLast(from, to) ==
  IF from >= to THEN <<>> ELSE RefOf(from) \o RefsButLast(from + 1, to)

\* the reference tokens of the siblings from..to, in document order
RECURSIVE RefsOf(_, _)
RefsOf(from, to) ==
  IF from > to THEN <<>> ELSE RefOf(from) \o RefsOf(from + 1, to)

\* priority score: grows with interactivity and with shallower depth
priorityOf(node, depth) ==
  (IF hasInteractiveElements(node) THEN 2 ELSE 0) + (IF depth = 0 THEN 2 ELSE 1)

\* the ElementGroup a run is folded into, had every member been kept as a
\* sample
GroupAllSamples(seq) ==
  [type |-> seq.sample.type,
   count |-> seq.count,
   firstElement |-> seq.start,
   samples |-> [k \in 1..seq.count |-> seq.start + k - 1],
   refs |-> RefsOf(seq.start, seq.end),
   startLine |-> seq.start,
   endLine |-> seq.end]

\* the ElementGroup a run is folded into
Group(seq) ==
  [type |-> seq.sample.type,
   count |-> seq.count,
   firstElement |-> seq.start,
   samples |-> [k \in 1..(IF seq.count < 3 THEN seq.count ELSE 3) |->
                  seq.start + k - 1],
   refs |-> RefsOf(seq.start, seq.end),
   startLine |-> seq.start,
   endLine |-> seq.end]

\* the line of sibling k (child = 0) or of its child number child
NodeLine(k, child) ==
  [kind |-> "node", at |-> k, child |-> child, more |-> 0,
   priority |-> IF child = 0 THEN priorityOf(At(nodes, k), 0)
                ELSE priorityOf(At(nodes, k).children[child], 1),
   refs |-> IF child = 0 THEN RefOf(k)
            ELSE <<At(nodes, k).children[child].line.ref>>]

\* the representative line of a group: the line of its first member
RepLine(group) ==
  [kind |-> "rep", at |-> group.firstElement, child |-> 0, more |-> 0,
   priority |-> priorityOf(At(nodes, group.firstElement), 0),
   refs |-> RefOf(group.firstElement)]

\* the synthetic line of a group:
\* <type> (... and <count - 1> more similar) [refs: ...], its refs those of
\* the members after the first
FoldLine(group) ==
  [kind |-> "fold", at |-> group.firstElement, child |-> 0,
   more |-> group.count - 1,
   priority |-> priorityOf(At(nodes, group.firstElement), 0),
   refs |-> RefsOf(group.firstElement + 1, group.endLine)]

\* the lines siblings from.. are emitted as once the runs are folded
RECURSIVE foldLists(_, _)
foldLists(groups, from) ==
  IF from >= Len(nodes) THEN <<>>
  ELSE LET of == {r \in 1..Len(groups) :
                    from \in groups[r].startLine..groups[r].endLine}
       IN (IF of = {}
           THEN <<NodeLine(from, 0)>>
                \o [c \in 1..Len(At(nodes, from).children) |->
                      NodeLine(from, c)]
           ELSE LET group == groups[CHOOSE r \in of : TRUE]
                IN IF from = group.firstElement
                   THEN <<RepLine(group), FoldLine(group)>> ELSE <<>>)
          \o foldLists(groups, from + 1)

\* the positions of the lines that may be dropped: not a line of a group, and
\* not the line of a node one of whose children is still to be emitted
Droppable(lines) ==
  {p \in 1..Len(lines) :
     /\ lines[p].kind = "node"
     /\ lines[p].child = 0 =>
          \A q \in 1..Len(lines) :
            ~(lines[q].at = lines[p].at /\ lines[q].child # 0)}

\* every droppable position, whatever its priority
AnyDroppable(lines) == Droppable(lines)

\* the droppable positions no droppable position has a lower priority than
Lowest(lines) ==
  {p \in Droppable(lines) :
     \A q \in Droppable(lines) : lines[q].priority >= lines[p].priority}

\* lines without the line at position p
Without(lines, p) == SubSeq(lines, 1, p - 1) \o SubSeq(lines, p + 1, Len(lines))

\* generate(rawSnapshot, options): the tree is built and the run detector is
\* called on the sibling list
Generate ==
  /\ gen.phase = "input"
  /\ pc = "idle"
  /\ gen' = [gen EXCEPT !.phase = "detect"]
  /\ call' = "findAllSimilarSequences"
  /\ pc' = "loop"
  /\ processed' = {}
  /\ sequences' = <<>>
  /\ UNCHANGED <<pageVars, toolVars, nodes, hd, ch, hashCache, indexMap, iterations, members,
                 scanVars>>

\* run folding: each returned run becomes a group, its member lines are
\* replaced by the representative line and the synthetic line
FoldLists ==
  /\ gen.phase = "detect"
  /\ pc = "done"
  /\ LET groups == [r \in 1..Len(sequences) |-> Group(sequences[r])]
         lines == foldLists(groups, 0)
     IN gen' = [gen EXCEPT !.phase = "budget", !.groups = groups,
                           !.folded = lines, !.lines = lines]
  /\ UNCHANGED <<pageVars, toolVars, nodes, hd, ch, call, pc, hashCache, allVars, scanVars>>

\* budget enforcement, one node: the lines exceed maxLines and the last of
\* the droppable lines of lowest priority is dropped
DropLowest ==
  /\ gen.phase = "budget"
  /\ Len(gen.lines) > gen.maxLines
  /\ Lowest(gen.lines) # {}
  /\ LET p == CHOOSE p \in Lowest(gen.lines) :
                \A q \in Lowest(gen.lines) : q <= p
     IN gen' = [gen EXCEPT !.lines = Without(gen.lines, p)]
  /\ UNCHANGED <<pageVars, toolVars, nodes, hd, ch, call, pc, hashCache, allVars, scanVars>>

\* the budget is met, or nothing is left that may be dropped: the lines are
\* returned
Emit ==
  /\ gen.phase = "budget"
  /\ Len(gen.lines) <= gen.maxLines \/ Droppable(gen.lines) = {}
  /\ gen' = [gen EXCEPT !.phase = "output"]
  /\ UNCHANGED <<pageVars, toolVars, nodes, hd, ch, call, pc, hashCache, allVars, scanVars>>

\* ------------------------------------------------------------------------
\* Tree Builder of the outline generator: one line of the outline per step.
\* A line is known by its number 1..n; tb.depths[k] is the nesting depth its
\* indentation gives.
\* ------------------------------------------------------------------------

\* the open node on top of the stack is closed by a line of depth d, had only
\* deeper nodes been closed
closesDeeper(depths, open, d) == depths[open] > d

\* the open node on top of the stack is closed by a line of depth d: it is not
\* shallower than the line
closes(depths, open, d) == depths[open] >= d

\* the stack of open nodes once the nodes a line of depth d closes are popped
RECURSIVE popClosed(_, _, _)
popClosed(depths, stack, d) ==
  IF stack # <<>> /\ closes(depths, stack[Len(stack)], d)
  THEN popClosed(depths, SubSeq(stack, 1, Len(stack) - 1), d)
  ELSE stack

\* the next line is attached: as the last child of the nearest open node
\* shallower than it, or as a new root
AttachLine ==
  /\ tb.phase = "build"
  /\ tb.k < Len(tb.depths)
  /\ LET line == tb.k + 1
         open == popClosed(tb.depths, tb.stack, tb.depths[line])
         parent == IF open = <<>> THEN 0 ELSE open[Len(open)]
     IN tb' = [tb EXCEPT
                 !.k = line,
                 !.stack = Append(open, line),
                 !.parent = Append(tb.parent, parent),
                 !.children = [p \in 0..Len(tb.depths) |->
                                 IF p = parent THEN Append(tb.children[p], line)
                                 ELSE tb.children[p]]]
  /\ UNCHANGED <<pageVars, engineVars, search, exec, sfs>>

\* every line is read: the tree is built
TreeBuilt ==
  /\ tb.phase = "build"
  /\ tb.k = Len(tb.depths)
  /\ tb' = [tb EXCEPT !.phase = "built"]
  /\ UNCHANGED <<pageVars, engineVars, search, exec, sfs>>

\* ------------------------------------------------------------------------
\* Wrapper removal of the outline generator, on the tree the Tree Builder
\* built.  tb.plain holds the lines with no own text and no type-significant
\* role, tb.removed the nodes elided so far.
\* ------------------------------------------------------------------------

\* the nodes to elide: no own text, no type-significant role, one child
Wrappers(t) ==
  {w \in 1..t.k : w \in t.plain /\ w \notin t.removed
                    /\ Len(t.children[w]) = 1}

\* the child list with the child appended and the wrapper taken out
splicedAtEnd(siblings, w, child) ==
  Append(SelectSeq(siblings, LAMBDA n : n # w), child)

\* the child list with the child at the wrapper's position
spliced(siblings, w, child) ==
  [c \in 1..Len(siblings) |-> IF siblings[c] = w THEN child ELSE siblings[c]]

\* one wrapper is elided: its child is spliced into its parent's child list
RemoveWrapper ==
  /\ tb.phase = "built"
  /\ \E w \in Wrappers(tb) :
       LET child == tb.children[w][1]
           parent == tb.parent[w]
       IN tb' = [tb EXCEPT
                   !.removed = tb.removed \cup {w},
                   !.parent[child] = parent,
                   !.children = [p \in DOMAIN tb.children |->
                                   IF p = parent
                                   THEN spliced(tb.children[p], w, child)
                                   ELSE IF p = w THEN <<>>
                                   ELSE tb.children[p]]]
  /\ UNCHANGED <<pageVars, engineVars, search, exec, sfs>>

\* no wrapper remains
WrappersRemoved ==
  /\ tb.phase = "built"
  /\ Wrappers(tb) = {}
  /\ tb' = [tb EXCEPT !.phase = "clean"]
  /\ UNCHANGED <<pageVars, engineVars, search, exec, sfs>>

\* ------------------------------------------------------------------------
\* Text truncation of the outline generator, and generate in mode "simple"
\* run on the output of generate.  A text is known by the number of its
\* leading characters that come from the page (chars) and by the count N its
\* "N more characters" marker shows (marker, 0 for no marker).
\* ------------------------------------------------------------------------

\* truncateText(50 chars)
TextCap == 50

\* the marker appended to a truncated text
MarkerText(n) ==
  NumStr(n) \o <<" ", "m", "o", "r", "e", " ", "c", "h", "a", "r", "a", "c",
                 "t", "e", "r", "s">>

\* the number of characters of a text as it stands on its line
Length(txt) ==
  txt.chars + (IF txt.marker = 0 THEN 0 ELSE Len(MarkerText(txt.marker)))

\* text truncation, had a text that carries a marker been left alone
truncateUnmarked(txt) ==
  IF txt.marker = 0 /\ Length(txt) > TextCap
  THEN [chars |-> TextCap, marker |-> Length(txt) - TextCap]
  ELSE txt

\* text truncation: a text longer than the cap is cut to the cap and the
\* marker counting the characters cut is appended
truncateText(txt) ==
  IF Length(txt) > TextCap
  THEN [chars |-> IF txt.chars < TextCap THEN txt.chars ELSE TextCap,
        marker |-> Length(txt) - TextCap]
  ELSE txt

\* generate on the raw snapshot: the texts of the lines are truncated
GenerateOnce ==
  /\ tb.phase = "raw"
  /\ tb' = [tb EXCEPT !.phase = "once",
                      !.once = [k \in 1..Len(tb.raw) |-> truncateText(tb.raw[k])]]
  /\ UNCHANGED <<pageVars, engineVars, search, exec, sfs>>

\* generate in mode "simple" on that output: every line is parsed with the
\* text that stands on it, no fold detection is done, texts are truncated
GenerateSimple ==
  /\ tb.phase = "once"
  /\ tb' = [tb EXCEPT !.phase = "twice",
                      !.twice = [k \in 1..Len(tb.once) |->
                                   truncateText(tb.once[k])]]
  /\ UNCHANGED <<pageVars, engineVars, search, exec, sfs>>

\* ------------------------------------------------------------------------
\* searchSnapshot (src/unnamed/part_004) and the handler of the tool
\* browser_search_snapshot (src/unnamed/part_006).  A snapshot is the sequence
\* of its lines; a line is known by its number and by whether the pattern
\* matches it (hit).  A pattern is "valid" or "invalid": new RegExp throws on
\* an invalid one.
\* ------------------------------------------------------------------------

\* const maxAllowed = 100
maxAllowed == 100

\* Math.min
Min(a, b) == IF a < b THEN a ELSE b

\* Array.prototype.slice(0, end): a negative end counts from the end
slice(s, end) ==
  LET to == IF end < 0 THEN Len(s) + end ELSE Min(end, Len(s))
  IN IF to <= 0 THEN <<>> ELSE SubSeq(s, 1, to)

\* the message of the SyntaxError new RegExp throws
SyntaxErrorMessage == "Invalid regular expression"

\* const effectiveLimit = Math.min(lineLimit, maxAllowed)
effectiveLimit(lineLimit) == Min(lineLimit, maxAllowed)

\* the lines regex.test accepts (lines 61-71)
matchingLines(snapshot) ==
  LET hits == SelectSeq(snapshot, LAMBDA line : line.hit)
  IN [k \in 1..Len(hits) |-> [line |-> hits[k].n]]

\* searchSnapshot(snapshot, {pattern, lineLimit}) (lines 48-110)
searchSnapshot(snapshot, pattern, lineLimit) ==
  IF pattern = "invalid"
  THEN [result |-> <<[error |-> SyntaxErrorMessage]>>, matchCount |-> 0,
        truncated |-> FALSE]
  ELSE LET matching == matchingLines(snapshot)
           totalMatches == Len(matching)
       IN IF totalMatches = 0
          THEN [result |-> <<>>, matchCount |-> 0, truncated |-> FALSE]
          ELSE IF totalMatches > effectiveLimit(lineLimit)
          THEN [result |->
                  Append(slice(matching, effectiveLimit(lineLimit)),
                         [more |-> totalMatches - effectiveLimit(lineLimit)]),
                matchCount |-> totalMatches, truncated |-> TRUE]
          ELSE [result |-> matching, matchCount |-> totalMatches,
                truncated |-> FALSE]

\* searchSnapshot called on its own
CallSearchSnapshot ==
  /\ search.phase = "idle"
  /\ search.snapshot # <<>>
  /\ search' = [search EXCEPT
                  !.phase = "returned",
                  !.response = <<searchSnapshot(search.snapshot[1],
                                                search.pattern,
                                                search.lineLimit)>>]
  /\ UNCHANGED <<pageVars, engineVars, tb, exec, sfs>>

\* handleSearch(params) (part_006, lines 35-61); the text of the response is
\* known by its header and by the result it carries
handleSearch ==
  /\ search.phase = "idle"
  /\ search' =
       IF search.snapshot = <<>>
       THEN [search EXCEPT !.phase = "handled",
               !.text = [header |-> "No snapshot available", body |-> <<>>]]
       ELSE LET found == searchSnapshot(search.snapshot[1], search.pattern,
                                         search.lineLimit)
            IN [search EXCEPT
                  !.phase = "handled",
                  !.response = <<found>>,
                  !.text =
                    IF found.matchCount = 0
                    THEN [header |-> "No matches found for pattern",
                          body |-> <<>>]
                    ELSE IF found.truncated
                    THEN [header |-> "Found matches (showing first)",
                          body |-> found.result]
                    ELSE [header |-> "Found matches", body |-> found.result]]
  /\ UNCHANGED <<pageVars, engineVars, tb, exec, sfs>>

\* ------------------------------------------------------------------------
\* browser_execute (src/src/tools/execute.ts, src/src/vm-context.ts,
\* src/src/utils/console-capture.ts) and the browser state it runs on
\* (src/src/browser.ts)
\* ------------------------------------------------------------------------

\* const MAX_RESPONSE_LENGTH = 6000
MAX_RESPONSE_LENGTH == 6000

\* a property of the state object that was never written, or was deleted
undefined == "undefined"

\* the property names and the values the model's scripts write to `state`
Keys == {"visitCount", "lastPage"}
Values == {"1", "newest"}

\* let userState = {}: no property is set
EmptyState == [k \in Keys |-> undefined]

\* clearUserState(): every key of the object is deleted (lines 178-180)
clearUserState(userState) == [k \in DOMAIN userState |-> undefined]

\* the fixed texts of a response
Hint ==
  "\n\n[HINT: If this is a stale ref error, call snapshot tool again to get fresh refs.]"
Notice == "\n\n[Truncated to 6000 chars. Use pagination or filter results.]"

\* the number of characters of a string
Chars(str) == Len(str)

\* a text is the sequence of its parts in order, each with its number of
\* characters; a part cut by slice is no longer whole
Part(name, says, n) ==
  [part |-> name, says |-> says, chars |-> n, whole |-> TRUE]

RECURSIVE TextLength(_)
TextLength(parts) ==
  IF parts = <<>> THEN 0 ELSE parts[1].chars + TextLength(Tail(parts))

\* String.prototype.slice(0, n)
RECURSIVE sliceText(_, _)
sliceText(parts, n) ==
  IF parts = <<>> \/ n <= 0 THEN <<>>
  ELSE IF parts[1].chars <= n
       THEN <<parts[1]>> \o sliceText(Tail(parts), n - parts[1].chars)
       ELSE <<[parts[1] EXCEPT !.chars = n, !.whole = FALSE]>>

\* the console output of a script is the sequence of its console.log calls,
\* each known by the number of characters of its formatted arguments
RECURSIVE logLines(_)
logLines(logs) ==
  IF logs = <<>> THEN 0
  ELSE Chars("[log] ") + logs[1] + 1 + logLines(Tail(logs))

\* formatConsoleLogs(logs) (console-capture.ts, lines 57-82)
formatConsoleLogs(logs) ==
  IF Len(logs) = 0 THEN <<>>
  ELSE <<Part("Console output", "", Chars("Console output:\n")
                                       + logLines(logs) + 1)>>

\* new CodeExecutionTimeoutError(timeout) (vm-context.ts, lines 141-146)
CodeExecutionTimeoutError(timeout) ==
  [name |-> "CodeExecutionTimeoutError",
   message |-> "Code execution timed out after " \o ToString(timeout) \o "ms"]

\* the error vm.runInContext throws when the synchronous run of the script
\* exceeds its timeout option
ScriptTimeoutError(timeout) ==
  [name |-> "Error",
   message |-> "Script execution timed out after " \o ToString(timeout)
                 \o "ms"]

\* no error
NoError == [name |-> "", message |-> ""]

\* what the script does with the state object and what it returns
runScript(code, userState) ==
  CASE code.kind = "write" ->
         [state |-> [userState EXCEPT ![code.key] = code.value],
          value |-> code.value]
    [] code.kind = "read" ->
         [state |-> userState, value |-> userState[code.key]]
    [] OTHER -> [state |-> userState, value |-> undefined]

\* Promise.race([vm.runInContext(wrappedCode, vmContext, {timeout}),
\* timeoutPromise]) (vm-context.ts, lines 229-241): the timeout option of
\* runInContext ends a script that is still in its synchronous run; the timer
\* rejects while the script awaits; a script that keeps the thread busy after
\* an await is ended by neither, and the timer can fire only once it is done
settled(code, timeout) ==
  IF code.kind = "throw" THEN [error |-> [name |-> "Error",
                                          message |-> code.message],
                               elapsed |-> 0]
  ELSE IF code.kind = "run" /\ code.duration > timeout
          /\ code.blocks # "afterAwait"
  THEN [error |-> IF code.blocks = "start"
                  THEN ScriptTimeoutError(timeout)
                  ELSE CodeExecutionTimeoutError(timeout),
        elapsed |-> timeout]
  ELSE [error |-> NoError,
        elapsed |-> IF code.kind = "run" THEN code.duration ELSE 0]

\* executeInVM(code, {page, context, state, timeout}) (lines 168-250)
executeInVM(code, userState, timeout) ==
  LET outcome == settled(code, timeout)
      ran == runScript(code, userState)
  IN [result |-> IF outcome.error = NoError THEN ran.value ELSE undefined,
      consoleLogs |-> code.logs,
      error |-> outcome.error,
      state |-> ran.state,
      elapsed |-> outcome.elapsed]

\* responseText += `Error: ${result.error.message}${hint}` (lines 258-263)
errorText(error) ==
  <<Part("Error: ", error.message, Chars("Error: ") + Chars(error.message))>>
  \o IF error.name = "CodeExecutionTimeoutError" THEN <<>>
     ELSE <<Part("hint", "", Chars(Hint))>>

\* formatVMResult(result) (vm-context.ts, lines 255-282); a returned value
\* of the model is printed on one character
formatVMResult(r) ==
  formatConsoleLogs(r.consoleLogs)
  \o IF r.error # NoError THEN errorText(r.error)
     ELSE IF r.result # undefined
     THEN <<Part("Return value", "", Chars("Return value:\n")),
            Part("value", r.result, 1)>>
     ELSE IF Len(r.consoleLogs) = 0
     THEN <<Part("Code executed successfully (no output)", "",
                 Chars("Code executed successfully (no output)"))>>
     ELSE <<>>

\* lines 71-74 of execute.ts
truncateResponse(responseText) ==
  IF TextLength(responseText) > MAX_RESPONSE_LENGTH
  THEN sliceText(responseText, MAX_RESPONSE_LENGTH)
       \o <<Part("notice", "", Chars(Notice))>>
  ELSE responseText

\* launchBrowser() (browser.ts, lines 65-126): over CDP and on the standard
\* path state.browser is the browser; with a user data directory the
\* persistent context is launched and state.browser is null
launchBrowser(e) ==
  [e EXCEPT !.browser = (e.config # "persistent"),
            !.context = TRUE, !.page = TRUE]

\* getPage() (lines 131-136)
getPage(e) == IF ~e.page THEN launchBrowser(e) ELSE e

\* closeBrowser() (browser.ts, lines 155-165)
closeBrowserState(e) ==
  IF e.browser
  THEN [e EXCEPT !.browser = FALSE, !.context = FALSE, !.page = FALSE,
                 !.userState = clearUserState(e.userState)]
  ELSE e

\* the scripts of the model: each logs to the console, then writes a
\* property of state, reads one, throws an error, or runs for a time
ConsoleLogs == {<<>>, <<100>>, <<5880>>, <<4000, 3000>>}
Messages == {"Test error", "timeout"}
Durations == {500, 2000}
Timeouts == {1000, 30000}

Codes ==
  {[kind |-> "write", key |-> k, value |-> v, logs |-> <<>>] :
     k \in Keys, v \in Values}
  \cup {[kind |-> "read", key |-> k, logs |-> l] :
          k \in Keys, l \in {<<>>, <<100>>}}
  \cup {[kind |-> "throw", message |-> m, logs |-> l] :
          m \in Messages, l \in ConsoleLogs}
  \cup {[kind |-> "run", blocks |-> b, duration |-> d, logs |-> l] :
          b \in {"never", "start", "afterAwait"}, d \in Durations,
          l \in {<<>>, <<4000, 3000>>}}

\* handleExecute(params) (execute.ts, lines 47-113)
handleExecute ==
  /\ exec.phase = "serving"
  /\ \E code \in Codes, timeout \in Timeouts :
       LET launched == getPage(exec)
           r == executeInVM(code, launched.userState, timeout)
       IN exec' = [launched EXCEPT
                     !.userState = r.state,
                     !.written =
                       IF code.kind = "write"
                       THEN [exec.written EXCEPT ![code.key] = code.value]
                       ELSE exec.written,
                     !.last = [op |-> "browser_execute", code |-> code,
                               timeout |-> timeout],
                     !.vm = <<r>>,
                     !.response =
                       [text |-> truncateResponse(formatVMResult(r)),
                        isError |-> (r.error # NoError),
                        elapsed |-> r.elapsed]]
  /\ UNCHANGED <<pageVars, engineVars, tb, search, sfs>>

\* any other tool call: it gets the page and leaves the state object alone
OtherToolCall ==
  /\ exec.phase = "serving"
  /\ exec' = [getPage(exec) EXCEPT !.last = [op |-> "other"]]
  /\ UNCHANGED <<pageVars, engineVars, tb, search, sfs>>

\* closeBrowser() is called; `written` follows what the calls have written
\* to state since the browser was last closed
closeBrowser ==
  /\ exec.phase = "serving"
  /\ exec' = [closeBrowserState(exec) EXCEPT
                !.written = EmptyState,
                !.last = [op |-> "closeBrowser"]]
  /\ UNCHANGED <<pageVars, engineVars, tb, search, sfs>>

\* ------------------------------------------------------------------------
\* ScopedFS (src/src/utils/scoped-fs.ts) and the sandboxed require
\* (src/src/vm-context.ts)
\* ------------------------------------------------------------------------

\* path.sep
sep == "/"

\* a path given to an operation: absolute or relative to the working
\* directory, made of names and of ".."
Names == {"tmp", "tmpfoo", "etc"}
PathLen == 2
InputPaths ==
  {[absolute |-> a, parts |-> ps] :
     a \in BOOLEAN,
     ps \in UNION {[1..n -> Names \cup {".."}] : n \in 0..PathLen}}

\* the names of the directories from the root down to the place a path
\* leads to from a base directory; ".." of the root is the root
RECURSIVE walk(_, _)
walk(base, parts) ==
  IF parts = <<>> THEN base
  ELSE IF parts[1] = ".."
       THEN walk(IF base = <<>> THEN <<>>
                 ELSE SubSeq(base, 1, Len(base) - 1), Tail(parts))
       ELSE walk(Append(base, parts[1]), Tail(parts))

\* a normalized absolute path as a string: the root is "/"
RECURSIVE joined(_)
joined(names) ==
  IF names = <<>> THEN "" ELSE sep \o names[1] \o joined(Tail(names))

toPath(names) == IF names = <<>> THEN sep ELSE joined(names)

\* where path.resolve(filePath) leads, from process.cwd()
resolvedNames(cwd, filePath) ==
  walk(IF filePath.absolute THEN <<>> ELSE cwd, filePath.parts)

\* path.resolve(filePath)
resolve(cwd, filePath) == toPath(resolvedNames(cwd, filePath))

\* String.prototype.startsWith
startsWith(str, prefix) ==
  Len(prefix) <= Len(str) /\ SubSeq(str, 1, Len(prefix)) = prefix

\* resolved === dir || resolved.startsWith(dir + path.sep)
allows(resolved, dir) ==
  resolved = dir \/ startsWith(resolved, dir \o sep)

\* isPathAllowed(resolved) (lines 24-28)
isPathAllowed(allowedDirs, resolved) ==
  \E dir \in allowedDirs : allows(resolved, dir)

\* resolvePath(filePath) (lines 30-44): the resolved path, or the error
resolvePath(fsys, filePath) ==
  LET resolved == resolve(fsys.cwd, filePath)
  IN IF ~isPathAllowed(fsys.allowedDirs, resolved)
     THEN [code |-> "EPERM", syscall |-> "access", resolved |-> ""]
     ELSE [code |-> "", syscall |-> "", resolved |-> resolved]

\* new ScopedFS(allowedDirs) (lines 18-22)
ScopedFS(cwd, dirs) ==
  [cwd |-> cwd,
   allowedDirs |-> {resolve(cwd, d) : d \in dirs}]

\* the default directories: process.cwd(), '/tmp' and os.tmpdir()
defaultDirs ==
  {[absolute |-> FALSE, parts |-> <<>>],
   [absolute |-> TRUE, parts |-> <<"tmp">>]}

\* the methods of ScopedFS by form; copy and rename take two paths
SyncMethods ==
  {"readFileSync", "writeFileSync", "appendFileSync", "readdirSync",
   "mkdirSync", "rmdirSync", "unlinkSync", "statSync", "lstatSync",
   "accessSync", "copyFileSync", "renameSync", "rmSync"}
CallbackMethods ==
  {"readFile", "writeFile", "appendFile", "readdir", "mkdir", "rmdir",
   "unlink", "stat", "lstat", "access", "copyFile", "rename", "rm"}
StreamMethods == {"createReadStream", "createWriteStream"}
WatchMethods == {"watch", "watchFile", "unwatchFile"}
PromiseMethods ==
  {"promises.readFile", "promises.writeFile", "promises.appendFile",
   "promises.readdir", "promises.mkdir", "promises.rmdir",
   "promises.unlink", "promises.stat", "promises.lstat",
   "promises.access", "promises.copyFile", "promises.rename",
   "promises.rm"}
TwoPathMethods ==
  {"copyFileSync", "renameSync", "copyFile", "rename",
   "promises.copyFile", "promises.rename"}

\* the paths a method can be called with
ArgsOf(method) ==
  IF method \in TwoPathMethods
  THEN {<<p, q>> : p \in InputPaths, q \in InputPaths}
  ELSE {<<p>> : p \in InputPaths}

\* the paths of a call resolved one after the other, up to the first that
\* is not allowed
RECURSIVE resolveAll(_, _)
resolveAll(fsys, paths) ==
  IF paths = <<>> THEN <<>>
  ELSE LET first == resolvePath(fsys, paths[1])
       IN IF first.code # "" THEN <<first>>
          ELSE <<first>> \o resolveAll(fsys, Tail(paths))

\* a method other than exists: every path is resolved, then the method of
\* fs of the same name is called with the resolved paths; an error of
\* resolvePath leaves the method before fs is called
guardedCall(fsys, method, paths) ==
  LET rs == resolveAll(fsys, paths)
  IN IF rs[Len(rs)].code # ""
     THEN [threw |-> rs[Len(rs)].code, answer |-> "", fsCalls |-> <<>>]
     ELSE [threw |-> "", answer |-> "",
           fsCalls |-> <<[fn |-> method,
                          paths |-> [k \in 1..Len(rs) |-> rs[k].resolved]]>>]

\* existsSync and exists (lines 92-99 and 191-198): the error is caught and
\* the answer is false
existsCall(fsys, method, paths) ==
  LET r == resolvePath(fsys, paths[1])
  IN IF r.code # ""
     THEN [threw |-> "", answer |-> "false", fsCalls |-> <<>>]
     ELSE [threw |-> "", answer |-> "fs",
           fsCalls |-> <<[fn |-> method, paths |-> <<r.resolved>>]>>]

\* no call changes a ScopedFS instance: each instance is followed through
\* one call
Uncalled == sfs.phase = "fs" /\ sfs.last = <<>>

\* one call of a method of the ScopedFS instance
Called(method, paths, outcome) ==
  /\ sfs' = [sfs EXCEPT !.last = <<[method |-> method, paths |-> paths]>>,
                        !.outcome = outcome]
  /\ UNCHANGED <<pageVars, engineVars, tb, search, exec>>

\* the synchronous methods (lines 47-121)
SyncCall ==
  /\ Uncalled
  /\ \E method \in SyncMethods : \E paths \in ArgsOf(method) :
       Called(method, paths, guardedCall(sfs.fs, method, paths))

\* existsSync (lines 92-99)
ExistsSyncCall ==
  /\ Uncalled
  /\ \E paths \in ArgsOf("existsSync") :
       Called("existsSync", paths, existsCall(sfs.fs, "existsSync", paths))

\* the callback methods (lines 124-189)
CallbackCall ==
  /\ Uncalled
  /\ \E method \in CallbackMethods : \E paths \in ArgsOf(method) :
       Called(method, paths, guardedCall(sfs.fs, method, paths))

\* exists (lines 191-198)
ExistsCall ==
  /\ Uncalled
  /\ \E paths \in ArgsOf("exists") :
       Called("exists", paths, existsCall(sfs.fs, "exists", paths))

\* createReadStream and createWriteStream (lines 201-209)
StreamCall ==
  /\ Uncalled
  /\ \E method \in StreamMethods : \E paths \in ArgsOf(method) :
       Called(method, paths, guardedCall(sfs.fs, method, paths))

\* watch, watchFile and unwatchFile (lines 212-225)
WatchCall ==
  /\ Uncalled
  /\ \E method \in WatchMethods : \E paths \in ArgsOf(method) :
       Called(method, paths, guardedCall(sfs.fs, method, paths))

\* the methods of promises (lines 228-285): the error rejects the promise
PromiseCall ==
  /\ Uncalled
  /\ \E method \in PromiseMethods : \E paths \in ArgsOf(method) :
       Called(method, paths, guardedCall(sfs.fs, method, paths))

\* const ALLOWED_MODULES = new Set([...]) (vm-context.ts, lines 62-91)
BareModules ==
  {"path", "url", "querystring", "crypto", "buffer", "string_decoder",
   "util", "assert", "events", "stream", "zlib", "http", "https", "os",
   "fs"}
ALLOWED_MODULES == BareModules \cup {"node:" \o id : id \in BareModules}

\* module ids the allowlist does not hold
OtherModules ==
  {"child_process", "node:child_process", "vm", "net", "worker_threads",
   "fs/promises", "node:fs/promises", "module", "./scoped-fs.js"}

\* the sandboxed require with the scoped fs given for 'fs' alone
requireBareFs(id) ==
  IF id \notin ALLOWED_MODULES
  THEN [id |-> id, threw |-> "ModuleNotAllowedError", returned |-> "",
        loaded |-> <<>>]
  ELSE IF id = "fs"
  THEN [id |-> id, threw |-> "", returned |-> "scopedFs", loaded |-> <<>>]
  ELSE [id |-> id, threw |-> "", returned |-> "module", loaded |-> <<id>>]

\* sandboxedRequire(id) (vm-context.ts, lines 100-116): what it throws, what
\* it returns and the ids it hands to originalRequire
sandboxedRequire(id) ==
  IF id \notin ALLOWED_MODULES
  THEN [id |-> id, threw |-> "ModuleNotAllowedError", returned |-> "",
        loaded |-> <<>>]
  ELSE IF id = "fs" \/ id = "node:fs"
  THEN [id |-> id, threw |-> "", returned |-> "scopedFs", loaded |-> <<>>]
  ELSE [id |-> id, threw |-> "", returned |-> "module", loaded |-> <<id>>]

\* greatest number of require calls of a script
MaxRequires == 2

\* a script calls require(id)
RequireCall ==
  /\ sfs.phase = "require"
  /\ Len(sfs.required) < MaxRequires
  /\ \E id \in ALLOWED_MODULES \cup OtherModules :
       sfs' = [sfs EXCEPT !.required = Append(@, sandboxedRequire(id))]
  /\ UNCHANGED <<pageVars, engineVars, tb, search, exec>>

\* ------------------------------------------------------------------------
\* Browser console logs (src/src/utils/browser-logs.ts)
\* ------------------------------------------------------------------------

\* const MAX_LOGS_PER_PAGE = 5000
MAX_LOGS_PER_PAGE == 5000

\* the pages, by their _guid
Pages == {"page@1", "page@2"}

\* pageLogs.push(logEntry); if (pageLogs.length > MAX_LOGS_PER_PAGE)
\* pageLogs.shift() (lines 63-68)
pushCapped(pageLogs, logEntry) ==
  IF Len(pageLogs) + 1 > MAX_LOGS_PER_PAGE
  THEN Tail(Append(pageLogs, logEntry))
  ELSE Append(pageLogs, logEntry)

\* the store after the 'console' handler of the page has run (lines 58-70)
onConsole(store, targetId, logEntry) ==
  IF targetId \in DOMAIN store
  THEN [store EXCEPT ![targetId] = pushCapped(store[targetId], logEntry)]
  ELSE store

\* greatest number of events followed from an initial state
MaxEvents == 4

\* an event is counted
Counted(e) ==
  /\ browserLogs.phase = "pages"
  /\ browserLogs.events < MaxEvents
  /\ e.events = browserLogs.events + 1

\* setupPageConsoleListener(page) for a page just opened (lines 32-56)
setupPageConsoleListener ==
  \E p \in Pages \ (browserLogs.listening \cup browserLogs.closed) :
    /\ \E e \in {[browserLogs EXCEPT
                    !.events = @ + 1,
                    !.listening = @ \cup {p},
                    !.store = IF p \in DOMAIN @ THEN @ ELSE @ @@ (p :> <<>>),
                    !.last = [event |-> "setup", page |-> p]]} :
         Counted(e) /\ browserLogs' = e
    /\ UNCHANGED <<engineVars, toolVars, capture, labels, mgr>>

\* a page with a listener emits a console message: the 'console' handler
\* runs (lines 58-70); the entries are numbered in the order of arrival
ConsoleMessage ==
  \E p \in browserLogs.listening :
    /\ \E e \in {[browserLogs EXCEPT
                    !.events = @ + 1,
                    !.arrived[p] = @ + 1,
                    !.sinceClear[p] = @ + 1,
                    !.store = onConsole(@, p, browserLogs.arrived[p] + 1),
                    !.last = [event |-> "console", page |-> p]]} :
         Counted(e) /\ browserLogs' = e
    /\ UNCHANGED <<engineVars, toolVars, capture, labels, mgr>>

\* the main frame of a page with a listener navigates (lines 46-50)
MainFrameNavigated ==
  \E p \in browserLogs.listening :
    /\ \E e \in {[browserLogs EXCEPT
                    !.events = @ + 1,
                    !.sinceClear[p] = 0,
                    !.store = IF p \in DOMAIN @
                              THEN [@ EXCEPT ![p] = <<>>]
                              ELSE @ @@ (p :> <<>>),
                    !.last = [event |-> "framenavigated", page |-> p]]} :
         Counted(e) /\ browserLogs' = e
    /\ UNCHANGED <<engineVars, toolVars, capture, labels, mgr>>

\* a page with a listener closes (lines 53-55); it emits nothing afterwards
PageClosed ==
  \E p \in browserLogs.listening :
    /\ \E e \in {[browserLogs EXCEPT
                    !.events = @ + 1,
                    !.listening = @ \ {p},
                    !.closed = @ \cup {p},
                    !.store = [q \in DOMAIN @ \ {p} |-> @[q]],
                    !.last = [event |-> "close", page |-> p]]} :
         Counted(e) /\ browserLogs' = e
    /\ UNCHANGED <<engineVars, toolVars, capture, labels, mgr>>

\* clearAllLogs() (lines 151-153): browserLogs.clear()
clearAllLogs ==
  /\ \E e \in {[browserLogs EXCEPT
                  !.events = @ + 1,
                  !.sinceClear = [p \in Pages |-> 0],
                  !.cleared = TRUE,
                  !.store = [p \in {} |-> <<>>],
                  !.last = [event |-> "clearAllLogs", page |-> ""]]} :
       Counted(e) /\ browserLogs' = e
  /\ UNCHANGED <<engineVars, toolVars, capture, labels, mgr>>

\* ---------------------------------------------------------------------------
\* Network capture (NetworkCapture, browser_network_requests)
\* ---------------------------------------------------------------------------

STATIC_RESOURCE_TYPES == {"image", "stylesheet", "font", "media", "manifest", "other"}

\* resource types the page's requests are drawn from
ResourceTypes == {"image", "font", "xhr"}

\* params.includeStatic of a browser_network_requests call
StaticFlags == {"true", "false", "undefined"}

MaxTraffic == 3

DefaultLimit == 50

\* a NetworkCapture as constructed: no page, options.includeStatic false
NewCapture(current) ==
  [phase |-> "capture", events |-> 0, current |-> current, page |-> "null",
   includeStatic |-> FALSE, requests |-> <<>>, issued |-> <<>>,
   last |-> [event |-> "start", includeStatic |-> "undefined", reported |-> <<>>,
                               issued |-> <<>>]]

\* stop(): listeners detached, page forgotten; the request map is kept
stop(c) == [c EXCEPT !.page = "null"]

\* start(page, options) with options.includeStatic given as a boolean
start(c, target, include) ==
  IF c.page = target
    THEN c
    ELSE [stop(c) EXCEPT !.includeStatic = include, !.page = target,
                         !.requests = <<>>, !.issued = <<>>]

\* the request listener: a static resource is skipped unless the options the
\* capture began with include static resources
requestListener(c, resourceType) ==
  IF ~c.includeStatic /\ resourceType \in STATIC_RESOURCE_TYPES
    THEN c
    ELSE [c EXCEPT !.requests = Append(@, resourceType)]

IsDynamic(resourceType) == resourceType \notin STATIC_RESOURCE_TYPES

\* getRequests(options): static resources filtered out only on an explicit false
getRequests(c, include) ==
  IF include = "false" THEN SelectSeq(c.requests, IsDynamic) ELSE c.requests

\* requests.slice(-limit)
lastOf(reqs, n) ==
  IF Len(reqs) <= n THEN reqs ELSE SubSeq(reqs, Len(reqs) - n + 1, Len(reqs))

\* getSummary(options): the resource types of the requests listed
getSummary(c, include, n) == lastOf(getRequests(c, include), IF n = 0 THEN 50 ELSE n)

\* browser_network_requests: start the capture on the current page when it is
\* not running there, report, then clear when asked to
getNetworkRequests ==
  /\ capture.phase = "capture"
  /\ capture.events < 2 * MaxTraffic
  /\ \E include \in StaticFlags, wipe \in BOOLEAN :
       \E c \in {start(capture, capture.current, include = "true")} :
         capture' = [c EXCEPT
           !.events = @ + 1,
           !.requests = IF wipe THEN <<>> ELSE @,
           !.issued = IF wipe THEN <<>> ELSE @,
           !.last = [event |-> "report", includeStatic |-> include,
                     reported |-> getSummary(c, include, DefaultLimit),
                     issued |-> c.issued]]
  /\ UNCHANGED <<engineVars, toolVars, browserLogs, labels, mgr>>

\* the page issues a request; the listener of a running capture sees it
PageRequest ==
  /\ capture.phase = "capture"
  /\ Len(capture.issued) < MaxTraffic
  /\ capture.events < 2 * MaxTraffic
  /\ capture.page = capture.current
  /\ \E resourceType \in ResourceTypes :
       capture' = [requestListener(capture, resourceType) EXCEPT
                     !.events = @ + 1,
                     !.issued = Append(@, resourceType),
                     !.last = [event |-> "request", includeStatic |-> "undefined",
                               reported |-> <<>>, issued |-> <<>>]]
  /\ UNCHANGED <<engineVars, toolVars, browserLogs, labels, mgr>>

\* BrowserManager.close(): the capture is stopped; the next page is another one
closeCapture ==
  /\ capture.phase = "capture"
  /\ capture.events < 2 * MaxTraffic
  /\ capture.page # "null"
  /\ \E next \in Pages \ {capture.current} :
       capture' = [stop(capture) EXCEPT
                     !.events = @ + 1,
                     !.current = next,
                     !.last = [event |-> "close", includeStatic |-> "undefined",
                               reported |-> <<>>, issued |-> <<>>]]
  /\ UNCHANGED <<engineVars, toolVars, browserLogs, labels, mgr>>

\* ---------------------------------------------------------------------------
\* Concurrent getPage / launchBrowser calls (BrowserManager and browser.ts)
\* ---------------------------------------------------------------------------

MaxCallers == 3

\* the tool calls whose handlers await getPage() while others are in flight
Callers == 1..MaxCallers

\* a null reference; the browser, context and page created for caller k are k
NoObject == 0

\* a call not yet issued
NotCalled == [at |-> "idle", returned |-> NoObject]

\* the manager as constructed: no browser, no context, no page
NewManager ==
  [phase |-> "launch", browser |-> NoObject, context |-> NoObject,
   page |-> NoObject, launched |-> {}, calls |-> [k \in Callers |-> NotCalled]]

\* getPage() up to its first await: the page when there is one, otherwise
\* launchBrowser(), which tests state.page again and starts browserType.launch
getPageBegin(k) ==
  /\ mgr.phase = "launch"
  /\ mgr.calls[k].at = "idle"
  /\ mgr' = IF mgr.page # NoObject
              THEN [mgr EXCEPT !.calls[k] = [at |-> "done", returned |-> mgr.page]]
              ELSE [mgr EXCEPT !.calls[k].at = "launch",
                               !.launched = @ \cup {k}]
  /\ UNCHANGED <<engineVars, toolVars, browserLogs, capture, labels>>

\* state.browser = await browserType.launch(...); newContext is called on it
launchResolved(k) ==
  /\ mgr.phase = "launch"
  /\ mgr.calls[k].at = "launch"
  /\ mgr' = [mgr EXCEPT !.browser = k, !.calls[k].at = "context"]
  /\ UNCHANGED <<engineVars, toolVars, browserLogs, capture, labels>>

\* state.context = await state.browser.newContext(...); newPage is called on it
newContextResolved(k) ==
  /\ mgr.phase = "launch"
  /\ mgr.calls[k].at = "context"
  /\ mgr' = [mgr EXCEPT !.context = k, !.calls[k].at = "page"]
  /\ UNCHANGED <<engineVars, toolVars, browserLogs, capture, labels>>

\* state.page = await state.context.newPage(); ...; return state.page
newPageResolved(k) ==
  /\ mgr.phase = "launch"
  /\ mgr.calls[k].at = "page"
  /\ mgr' = [mgr EXCEPT !.page = k,
                        !.calls[k] = [at |-> "done", returned |-> k]]
  /\ UNCHANGED <<engineVars, toolVars, browserLogs, capture, labels>>

\* ---------------------------------------------------------------------------
\* Aria ref labels on a page (showAriaRefLabels, hideAriaRefLabels)
\* ---------------------------------------------------------------------------

MaxShows == 3

MaxTime == 4

\* the `timeout` arguments of showAriaRefLabels, in clock steps
HideTimeouts == {1, 2}

\* a page without labels: no container in the document, window[timerKey] unset,
\* no timer pending; the container and the timer of the n-th show are numbered n
NewLabels ==
  [phase |-> "labels", now |-> 0, shows |-> 0, containers |-> <<>>,
   timers |-> {}, timerKey |-> 0, shownAt |-> 0, timeout |-> 0,
   last |-> [event |-> "start", timer |-> 0, removed |-> 0]]

\* if (win[timerKey]) { win.clearTimeout(win[timerKey]); win[timerKey] = null }
keepTimer(l) == l

cancelTimer(l) ==
  IF l.timerKey # 0
    THEN [l EXCEPT !.timers = {t \in @ : t.id # l.timerKey}, !.timerKey = 0]
    ELSE l

\* doc.getElementById(containerId)?.remove(): the first element of that id
removeContainer(l) ==
  IF l.containers = <<>> THEN l ELSE [l EXCEPT !.containers = Tail(@)]

\* the container getElementById finds, 0 when there is none
foundContainer(l) == IF l.containers = <<>> THEN 0 ELSE Head(l.containers)

\* the page.evaluate of showAriaRefLabels: cancel the pending timer, remove the
\* old container, append the new one and arm its auto-hide timer
showAriaRefLabels ==
  /\ labels.phase = "labels"
  /\ labels.shows < MaxShows
  /\ \E autoHideTimeout \in HideTimeouts :
       /\ labels.now + autoHideTimeout <= MaxTime
       /\ \E l \in {removeContainer(cancelTimer(labels))} :
            labels' = [l EXCEPT
              !.shows = @ + 1,
              !.containers = Append(@, l.shows + 1),
              !.timers = @ \cup {[id |-> l.shows + 1,
                                  due |-> l.now + autoHideTimeout]},
              !.timerKey = l.shows + 1,
              !.shownAt = l.now,
              !.timeout = autoHideTimeout,
              !.last = [event |-> "show", timer |-> 0, removed |-> 0]]
  /\ UNCHANGED <<engineVars, toolVars, browserLogs, capture, mgr>>

\* the page.evaluate of hideAriaRefLabels
hideAriaRefLabels ==
  /\ labels.phase = "labels"
  /\ \E l \in {cancelTimer(labels)} :
       labels' = [removeContainer(l) EXCEPT
         !.last = [event |-> "hide", timer |-> 0, removed |-> foundContainer(l)]]
  /\ UNCHANGED <<engineVars, toolVars, browserLogs, capture, mgr>>

\* the callback of a pending timer runs when its time has come
TimerFires ==
  /\ labels.phase = "labels"
  /\ \E t \in labels.timers :
       /\ t.due <= labels.now
       /\ labels' = [removeContainer(labels) EXCEPT
            !.timers = @ \ {t},
            !.timerKey = 0,
            !.last = [event |-> "timer", timer |-> t.id,
                      removed |-> foundContainer(labels)]]
  /\ UNCHANGED <<engineVars, toolVars, browserLogs, capture, mgr>>

\* time passes; a timer that is due runs before the clock moves on
Tick ==
  /\ labels.phase = "labels"
  /\ labels.now < MaxTime
  /\ \A t \in labels.timers : labels.now < t.due
  /\ labels' = [labels EXCEPT !.now = @ + 1]
  /\ UNCHANGED <<engineVars, toolVars, browserLogs, capture, mgr>>

\* ------------------------------------------------------------------------
\* Specification
\* ------------------------------------------------------------------------

\* the sibling lists: every list of up to MaxLen siblings of the given kinds
SiblingLists ==
  {[k \in 1..Len(ks) |-> MkNode(ks[k], k - 1)] :
     ks \in UNION {[1..n -> Kinds] : n \in 0..MaxLen}}

\* the sibling lists of MaxLen + 1 siblings made of three blocks, each block
\* of one kind
BlockLists ==
  {[k \in 1..(MaxLen + 1) |->
      MkNode(IF k <= c[1] THEN c[3][1]
             ELSE IF k <= c[1] + c[2] THEN c[3][2] ELSE c[3][3], k - 1)] :
     c \in {d \in (1..MaxLen) \X (1..MaxLen) \X [1..3 -> Kinds] :
              d[1] + d[2] <= MaxLen}}

\* the state after construction, before anything is called
Fresh ==
  /\ call = "none"
  /\ pc = "idle"
  /\ hashCache = [k \in {} |-> 0]
  /\ processed = {}
  /\ sequences = <<>>
  /\ indexMap = <<>>
  /\ iterations = 0
  /\ members = <<>>
  /\ list = <<>>
  /\ i = 0
  /\ j = 0
  /\ similarCount = 0
  /\ maxLen = 0
  /\ bestStart = 0
  /\ bestEnd = 0
  /\ bestBaseHash = 0
  /\ result = null
  /\ ch = [node |-> null, ret |-> 0, again |-> FALSE,
           returned |-> [k \in {} |-> 0]]

\* the tree builder, the search tool, the execute tool and the scoped file
\* system not in use
NoTb == [phase |-> "none"]
NoSearch == [phase |-> "none"]
NoExec == [phase |-> "none"]
NoSfs == [phase |-> "none"]

NoLogs == [phase |-> "none"]
NoCapture == [phase |-> "none"]
NoLabels == [phase |-> "none"]
NoManager == [phase |-> "none"]

\* no page is observed
IdlePages ==
  /\ browserLogs = NoLogs
  /\ capture = NoCapture
  /\ labels = NoLabels
  /\ mgr = NoManager

IdleTools ==
  /\ tb = NoTb
  /\ search = NoSearch
  /\ exec = NoExec
  /\ sfs = NoSfs
  /\ IdlePages

\* generate not called
NoGen ==
  [phase |-> "none", maxLines |-> 0, foldThreshold |-> 3, noRef |-> {},
   groups |-> <<>>, folded |-> <<>>, lines |-> <<>>]

\* hammingDistance about to be called on hash1 and hash2
Args(hash1, hash2) ==
  [hash1 |-> hash1, hash2 |-> hash2, xor |-> 0, count |-> 0, ret |-> 0]

\* the state after construction, before an entry point is called on one of
\* the given sibling lists
InitOn(lists) ==
  /\ nodes \in lists
  /\ hd = Args(0, 0)
  /\ gen = NoGen
  /\ IdleTools
  /\ Fresh

Init == InitOn(SiblingLists)

InitBlocks == InitOn(BlockLists)

Next ==
  \/ CallFindSimilarSequence
  \/ ScanAnchor
  \/ Return
  \/ CallFindAllSimilarSequences
  \/ LoopExit
  \/ LoopBreakShort
  \/ LoopCall
  \/ FoldRun
  \/ NoRunBreak

Spec == Init /\ [][Next]_vars

\* the same program on the three-block lists of MaxLen + 1 siblings
SpecBlocks == InitBlocks /\ [][Next]_vars

\* the fold thresholds a caller configures: the default and its neighbours
FoldThresholds == {2, 3, 4}

\* greatest number of siblings of a list searched under a configured threshold
ThresholdLen == 4

\* the run detector about to be called by a caller whose options carry the
\* fold threshold
InitThreshold ==
  /\ nodes \in {ns \in SiblingLists : Len(ns) \in 3..ThresholdLen}
  /\ hd = Args(0, 0)
  /\ gen \in {[NoGen EXCEPT !.foldThreshold = t] : t \in FoldThresholds}
  /\ IdleTools
  /\ Fresh

\* the entry points called under a configured threshold
SpecThreshold == InitThreshold /\ [][Next]_vars

\* a call runs to completion: the code is sequential and never waits
FairSpec == Spec /\ WF_vars(Next)

\* the similarity engine and the generator after construction, not called
IdleEngine ==
  /\ nodes = <<>>
  /\ hd = Args(0, 0)
  /\ gen = NoGen
  /\ Fresh

\* bit positions the sample fingerprints are built from
SampleBits == {0, 15, 30, HASH_BITS - 1}

\* the 32-bit integer whose set bits are exactly those of bits
Word(bits) ==
  LET from[k \in 0..HASH_BITS] ==
        IF k = HASH_BITS THEN 0
        ELSE IF k \in bits THEN OrBit(from[k + 1], k) ELSE from[k + 1]
  IN from[0]

\* ~x
Not32(x) == (0 - 1) - x

\* the fingerprints hammingDistance is called on: the words over the sample
\* bits, their complements, and the fingerprints of the node pool
Words ==
  {Word(bits) : bits \in SUBSET SampleBits}
    \cup {Not32(Word(bits)) : bits \in SUBSET SampleBits}
    \cup Fingerprints

\* hammingDistance about to be called on two of the sample fingerprints
InitHamming ==
  /\ nodes = <<>>
  /\ hd \in {Args(hash1, hash2) : hash1 \in Words, hash2 \in Words}
  /\ gen = NoGen
  /\ IdleTools
  /\ Fresh

NextHamming ==
  \/ CallHammingDistance
  \/ CountBit
  \/ ReturnCount

\* hammingDistance on its own; the call runs to completion
SpecHamming == InitHamming /\ [][NextHamming]_vars /\ WF_vars(NextHamming)

\* the trees computeHash is called on: up to HashLen nodes of the pool
HashLen == 3

InitHash == InitOn({ns \in SiblingLists : Len(ns) \in 1..HashLen})

NextHash ==
  \/ \E k \in 1..Len(nodes) : CallComputeHash(k)
  \/ ClearCache

\* computeHash and clearCache called in any order on the nodes
SpecHash == InitHash /\ [][NextHash]_vars

\* greatest number of nodes that are hashed and changed
ChangeLen == 2

InitChange == InitOn({ns \in SiblingLists : Len(ns) \in 1..ChangeLen})

NextChange ==
  \/ \E k \in 1..Len(nodes) : CallComputeHash(k)
  \/ \E k \in 1..Len(nodes), kind \in Kinds : ChangeNode(k, kind)
  \/ ClearCache

\* computeHash and clearCache called in any order on nodes that the caller
\* changes in between
SpecChange == InitChange /\ [][NextChange]_vars

\* greatest number of lines of an outline handed to the Tree Builder
TbLen == 5

\* greatest nesting depth of a line
TbDepth == 3

\* the Tree Builder about to read an outline of the given depths and plain
\* lines; children[0] are the roots
Outline(ds, plain) ==
  [phase |-> "build", depths |-> ds, plain |-> plain, k |-> 0,
   stack |-> <<>>, parent |-> <<>>, removed |-> {},
   children |-> [p \in 0..Len(ds) |-> <<>>]]

InitTree ==
  /\ tb \in {Outline(ds, {}) :
               ds \in UNION {[1..n -> 0..TbDepth] : n \in 0..TbLen}}
  /\ search = NoSearch
  /\ exec = NoExec
  /\ sfs = NoSfs
  /\ IdleEngine
  /\ IdlePages

NextTree ==
  \/ AttachLine
  \/ TreeBuilt

\* the Tree Builder on one outline
SpecTree == InitTree /\ [][NextTree]_vars

\* greatest number of lines and greatest depth of an outline with wrappers
WrapLen == 4
WrapDepth == 2

InitWrap ==
  /\ tb \in {Outline(ds, plain) :
               ds \in UNION {[1..n -> 0..WrapDepth] : n \in 0..WrapLen},
               plain \in SUBSET (1..WrapLen)}
  /\ tb.plain \subseteq 1..Len(tb.depths)
  /\ search = NoSearch
  /\ exec = NoExec
  /\ sfs = NoSfs
  /\ IdleEngine
  /\ IdlePages

NextWrap ==
  \/ AttachLine
  \/ TreeBuilt
  \/ RemoveWrapper
  \/ WrappersRemoved

\* tree building followed by wrapper removal; the pass runs to completion
SpecWrap == InitWrap /\ [][NextWrap]_vars /\ WF_vars(NextWrap)

\* greatest number of lines of a snapshot whose texts are truncated
TextLines == 3

\* the text lengths of the lines: empty, short, at the cap, just beyond it,
\* and long enough for the marker's count to have two, three or four digits
TextLengths == {0, 7, TextCap, TextCap + 1, 3 * TextCap, 21 * TextCap}

InitText ==
  /\ tb \in {[phase |-> "raw", raw |-> txts, once |-> <<>>, twice |-> <<>>] :
               txts \in UNION {[1..n -> {[chars |-> c, marker |-> 0] :
                                            c \in TextLengths}] :
                                 n \in 1..TextLines}}
  /\ search = NoSearch
  /\ exec = NoExec
  /\ sfs = NoSfs
  /\ IdleEngine
  /\ IdlePages

NextText ==
  \/ GenerateOnce
  \/ GenerateSimple

\* generate, then generate in mode "simple" on its output
SpecText == InitText /\ [][NextText]_vars

\* greatest number of lines of a snapshot beyond the cap of 100
BeyondCap == 3

\* the snapshots searched: every line hit, every other line hit, or none
Snapshots ==
  {[k \in 1..n |-> [n |-> k, hit |-> CASE h = "all" -> TRUE
                                        [] h = "odd" -> k % 2 = 1
                                        [] OTHER -> FALSE]] :
     n \in (1..BeyondCap) \cup ((maxAllowed + 1)..(maxAllowed + BeyondCap)),
     h \in {"all", "odd", "none"}}

\* the values of lineLimit: the schema is z.number() without bounds
LineLimits ==
  {0 - 1, 0, 1, 2, maxAllowed - 1, maxAllowed, maxAllowed + 1,
   maxAllowed + BeyondCap}

\* a search about to be made; the last snapshot is <<>> if none was taken
InitSearch ==
  /\ search \in {[phase |-> "idle", snapshot |-> snap, pattern |-> p,
                  lineLimit |-> l, response |-> <<>>,
                  text |-> [header |-> "", body |-> <<>>]] :
                   snap \in {<<>>} \cup {<<sn>> : sn \in Snapshots},
                   p \in {"valid", "invalid"}, l \in LineLimits}
  /\ tb = NoTb
  /\ exec = NoExec
  /\ sfs = NoSfs
  /\ IdleEngine
  /\ IdlePages

NextSearch ==
  \/ CallSearchSnapshot
  \/ handleSearch

\* one search, through the handler or straight
SpecSearch == InitSearch /\ [][NextSearch]_vars

\* the server after start: setBrowserConfig has chosen the launch path, no
\* browser is launched, the state object is empty
InitExecute ==
  /\ exec \in {[phase |-> "serving", config |-> c, browser |-> FALSE,
                context |-> FALSE, page |-> FALSE,
                userState |-> EmptyState, written |-> EmptyState,
                last |-> [op |-> "start"], vm |-> <<>>,
                response |-> [text |-> <<>>, isError |-> FALSE,
                              elapsed |-> 0]] :
                 c \in {"standard", "cdp", "persistent"}}
  /\ tb = NoTb
  /\ search = NoSearch
  /\ sfs = NoSfs
  /\ IdleEngine
  /\ IdlePages

NextExecute ==
  \/ handleExecute
  \/ OtherToolCall
  \/ closeBrowser

\* tool calls and closings of the browser in any order
SpecExecute == InitExecute /\ [][NextExecute]_vars

\* the working directories of the model: the root and a directory below it
WorkingDirs == {<<>>, <<"etc">>, <<"tmp">>}

\* a ScopedFS built with the default directories, or with '/tmp' alone
InitScopedFS ==
  /\ sfs \in {[phase |-> "fs", fs |-> ScopedFS(cwd, dirs), dirs |-> dirs,
               last |-> <<>>,
               outcome |-> [threw |-> "", answer |-> "", fsCalls |-> <<>>]] :
                cwd \in WorkingDirs,
                dirs \in {defaultDirs,
                          {[absolute |-> TRUE, parts |-> <<"tmp">>]}}}
  /\ tb = NoTb
  /\ search = NoSearch
  /\ exec = NoExec
  /\ IdleEngine
  /\ IdlePages

NextScopedFS ==
  \/ SyncCall
  \/ ExistsSyncCall
  \/ CallbackCall
  \/ ExistsCall
  \/ StreamCall
  \/ WatchCall
  \/ PromiseCall

\* a call of any method of a ScopedFS instance
SpecScopedFS == InitScopedFS /\ [][NextScopedFS]_vars

\* a script in the sandbox before its first require
InitRequire ==
  /\ sfs = [phase |-> "require", required |-> <<>>]
  /\ tb = NoTb
  /\ search = NoSearch
  /\ exec = NoExec
  /\ IdleEngine
  /\ IdlePages

NextRequire == RequireCall

\* the require calls of a script
SpecRequire == InitRequire /\ [][NextRequire]_vars

\* the entries 1..n in the order of arrival
Entries(n) == [k \in 1..n |-> k]

\* the store and its pages at the start: no page is open; or page@1 has a
\* listener and has emitted n messages, all stored; or page@1 has a listener,
\* clearAllLogs was called and the page has emitted n messages since
LogsAfter(n, clearedFirst) ==
  [phase |-> "pages", events |-> 0,
   listening |-> IF n = 0 /\ ~clearedFirst THEN {} ELSE {"page@1"},
   closed |-> {},
   store |-> IF clearedFirst \/ n = 0 THEN [p \in {} |-> <<>>]
             ELSE [p \in {"page@1"} |-> Entries(n)],
   arrived |-> [p \in Pages |-> IF p = "page@1" THEN n ELSE 0],
   sinceClear |-> [p \in Pages |-> IF p = "page@1" THEN n ELSE 0],
   cleared |-> clearedFirst,
   last |-> [event |-> "start", page |-> ""]]

InitLogs ==
  /\ browserLogs \in {LogsAfter(0, FALSE),
                      LogsAfter(MAX_LOGS_PER_PAGE - 1, FALSE),
                      LogsAfter(MAX_LOGS_PER_PAGE - 1, TRUE)}
  /\ capture = NoCapture
  /\ labels = NoLabels
  /\ mgr = NoManager
  /\ tb = NoTb
  /\ search = NoSearch
  /\ exec = NoExec
  /\ sfs = NoSfs
  /\ IdleEngine

NextLogs ==
  \/ setupPageConsoleListener
  \/ ConsoleMessage
  \/ MainFrameNavigated
  \/ PageClosed
  \/ clearAllLogs

\* pages open, emit console messages, navigate and close, and scripts call
\* clearAllLogs, in any order
SpecLogs == InitLogs /\ [][NextLogs]_vars

InitNetwork ==
  /\ capture \in {NewCapture(p) : p \in Pages}
  /\ browserLogs = NoLogs
  /\ labels = NoLabels
  /\ mgr = NoManager
  /\ tb = NoTb
  /\ search = NoSearch
  /\ exec = NoExec
  /\ sfs = NoSfs
  /\ IdleEngine

NextNetwork ==
  \/ getNetworkRequests
  \/ PageRequest
  \/ closeCapture

\* browser_network_requests calls with every includeStatic and clear, the
\* page's requests in between, and the browser closed and reopened
SpecNetwork == InitNetwork /\ [][NextNetwork]_vars

InitLaunch ==
  /\ mgr = NewManager
  /\ browserLogs = NoLogs
  /\ capture = NoCapture
  /\ labels = NoLabels
  /\ tb = NoTb
  /\ search = NoSearch
  /\ exec = NoExec
  /\ sfs = NoSfs
  /\ IdleEngine

NextLaunch ==
  \E k \in Callers :
    \/ getPageBegin(k)
    \/ launchResolved(k)
    \/ newContextResolved(k)
    \/ newPageResolved(k)

\* the callers' getPage calls and the resolutions of their awaits, interleaved
\* in every order the event loop allows
SpecLaunch == InitLaunch /\ [][NextLaunch]_vars

InitLabels ==
  /\ labels = NewLabels
  /\ browserLogs = NoLogs
  /\ capture = NoCapture
  /\ mgr = NoManager
  /\ tb = NoTb
  /\ search = NoSearch
  /\ exec = NoExec
  /\ sfs = NoSfs
  /\ IdleEngine

NextLabels ==
  \/ showAriaRefLabels
  \/ hideAriaRefLabels
  \/ TimerFires
  \/ Tick

\* shows and hides in any order while the page's clock runs and its timers fire
SpecLabels ==
  InitLabels /\ [][NextLabels]_vars /\ WF_vars(Tick) /\ WF_vars(TimerFires)

\* ---------------------------------------------------------------------------
\* The last snapshot of a BrowserManager (snapshot tool, search tool, close)
\* ---------------------------------------------------------------------------

MaxCaptures == 3

\* the raw snapshots getSnapshot(page) returns: the empty string of a page
\* without content (no line at all), and texts of one or two lines
RawSnapshots == {<<>>} \cup {sn \in Snapshots : Len(sn) <= 2}

\* state.lastSnapshot = null and no snapshot taken, as constructed and as
\* close() leaves it; a stored or taken snapshot is a list of one text
NewSnapshots ==
  [phase |-> "snapshot", events |-> 0, captures |-> 0, lastSnapshot |-> <<>>,
   taken |-> <<>>,
   last |-> [event |-> "start", header |-> "", response |-> <<>>,
             searched |-> <<>>]]

\* setLastSnapshot(snapshot)
setLastSnapshot(m, snapshot) == [m EXCEPT !.lastSnapshot = <<snapshot>>]

\* getLastSnapshot()
getLastSnapshot(m) == m.lastSnapshot

\* !snapshot: null, and the empty string as well
isFalsy(stored) == stored = <<>> \/ stored[1].raw = <<>>

\* the snapshot tool: rawSnapshot = await getSnapshot(page);
\* setLastSnapshot(rawSnapshot). The handler index.ts registers is built by
\* createSnapshotHandler(browserManager); the store is the manager's.
handleSnapshot ==
  /\ mgr.phase = "snapshot"
  /\ mgr.captures < MaxCaptures
  /\ \E rawSnapshot \in RawSnapshots :
       \E snap \in {[raw |-> rawSnapshot, capture |-> mgr.captures + 1]} :
         mgr' = [setLastSnapshot(mgr, snap) EXCEPT
                   !.events = @ + 1,
                   !.captures = @ + 1,
                   !.taken = <<snap>>,
                   !.last = [event |-> "snapshot", header |-> "",
                             response |-> <<>>, searched |-> <<>>]]
  /\ UNCHANGED <<engineVars, toolVars, browserLogs, capture, labels>>

\* browser_search_snapshot on the manager's last snapshot
searchLastSnapshot ==
  /\ mgr.phase = "snapshot"
  /\ mgr.events < 2 * MaxCaptures
  /\ \E pattern \in {"valid", "invalid"} :
       \E stored \in {getLastSnapshot(mgr)} :
         mgr' = [mgr EXCEPT
           !.events = @ + 1,
           !.last =
             IF isFalsy(stored)
             THEN [event |-> "search", header |-> "No snapshot available",
                   response |-> <<>>, searched |-> <<>>]
             ELSE [event |-> "search", header |-> "searched",
                   response |-> <<searchSnapshot(stored[1].raw, pattern,
                                                 maxAllowed)>>,
                   searched |-> stored]]
  /\ UNCHANGED <<engineVars, toolVars, browserLogs, capture, labels>>

\* BrowserManager.close(): state.lastSnapshot = null
closeManager ==
  /\ mgr.phase = "snapshot"
  /\ mgr.events < 2 * MaxCaptures
  /\ mgr.last.event # "close"
  /\ mgr' = [mgr EXCEPT
               !.events = @ + 1,
               !.lastSnapshot = <<>>,
               !.taken = <<>>,
               !.last = [event |-> "close", header |-> "",
                         response |-> <<>>, searched |-> <<>>]]
  /\ UNCHANGED <<engineVars, toolVars, browserLogs, capture, labels>>

InitSnapshots ==
  /\ mgr = NewSnapshots
  /\ browserLogs = NoLogs
  /\ capture = NoCapture
  /\ labels = NoLabels
  /\ tb = NoTb
  /\ search = NoSearch
  /\ exec = NoExec
  /\ sfs = NoSfs
  /\ IdleEngine

NextSnapshots ==
  \/ handleSnapshot
  \/ searchLastSnapshot
  \/ closeManager

\* snapshots, searches and closes of one manager, in any order
SpecSnapshots == InitSnapshots /\ [][NextSnapshots]_vars

\* greatest number of siblings handed to generate
GenLen == 4

\* greatest maxLines handed to generate
MaxBudget == 4

\* generate about to be called: at most one sibling without a [ref=...]
\* marker
InitGenerate ==
  /\ nodes \in {ns \in SiblingLists : Len(ns) \in 3..GenLen}
  /\ gen \in {[NoGen EXCEPT !.phase = "input", !.maxLines = m, !.noRef = s] :
                m \in 0..MaxBudget,
                s \in {{}} \cup {{k} : k \in 0..(Len(nodes) - 1)}}
  /\ hd = Args(0, 0)
  /\ IdleTools
  /\ Fresh

NextGenerate ==
  \/ Generate
  \/ ScanAnchor
  \/ Return
  \/ LoopExit
  \/ LoopBreakShort
  \/ LoopCall
  \/ FoldRun
  \/ NoRunBreak
  \/ FoldLists
  \/ DropLowest
  \/ Emit

\* one call of generate
SpecGenerate == InitGenerate /\ [][NextGenerate]_vars

\* ------------------------------------------------------------------------
\* Properties of the run detector
\* ------------------------------------------------------------------------

\* findSimilarSequence has returned a run (called directly, or from the main
\* loop of findAllSimilarSequences on the unprocessed siblings)
ReturnedRun == pc = "returned" /\ result # null

\* C1: whenever findSimilarSequence returns a run (start, end), end - start
\* + 1 >= 3 and every node at the indices start..end of the list, none
\* skipped, is within Hamming distance 3 of the node at index start.
C1_EveryIndexWithinAnchor ==
  ReturnedRun =>
    LET run == result[1]
    IN /\ run.end - run.start + 1 >= 3
       /\ \A k \in run.start..run.end :
            areSimilar(At(list, run.start), At(list, k), 3)

\* the sum of the counts of the given runs
RECURSIVE SumOfCounts(_)
SumOfCounts(runs) ==
  IF runs = <<>> THEN 0 ELSE runs[1].count + SumOfCounts(Tail(runs))

\* C2: no original sibling index is a member of more than one run returned by
\* findAllSimilarSequences (a run's members are the siblings claimed for it),
\* and the sum of the returned runs' counts never exceeds N.
C2_NoSiblingInTwoRuns ==
  /\ \A r1, r2 \in 1..Len(members) :
       r1 # r2 => members[r1] \cap members[r2] = {}
  /\ SumOfCounts(sequences) <= Len(nodes)

\* two runs were returned for one sibling list
C2_TwoRunsReturned == pc = "done" /\ Len(sequences) = 2

\* C3: every run returned by findAllSimilarSequences is a contiguous block of
\* the original list: its count equals end - start + 1 in original indices,
\* and the intervals [start, end] of two distinct runs are disjoint.
C3_RunsAreContiguousBlocks ==
  /\ \A r \in 1..Len(sequences) :
       sequences[r].count = sequences[r].end - sequences[r].start + 1
  /\ \A r1, r2 \in 1..Len(sequences) :
       r1 # r2 => \/ sequences[r1].end < sequences[r2].start
                  \/ sequences[r2].end < sequences[r1].start

\* two nodes that differ in text only: same type, same markers, and children
\* that pairwise differ in text only
RECURSIVE DifferInTextOnly(_, _)
DifferInTextOnly(node1, node2) ==
  /\ node1.type = node2.type
  /\ node1.line.markers = node2.line.markers
  /\ Len(node1.children) = Len(node2.children)
  /\ \A k \in 1..Len(node1.children) :
       DifferInTextOnly(node1.children[k], node2.children[k])

\* N >= 3 siblings of identical type, shape and depth, differing in text only
IdenticalSiblings ==
  /\ Len(nodes) >= 3
  /\ \A k \in 1..Len(nodes) : DifferInTextOnly(nodes[1], nodes[k])

\* C4: given N >= 3 siblings of identical type, shape and depth that differ
\* only in leaf text, findAllSimilarSequences returns exactly one run, with
\* start 0, end N - 1 and count N.
C4_IdenticalSiblingsOneRun ==
  (pc = "done" /\ IdenticalSiblings) =>
    /\ Len(sequences) = 1
    /\ sequences[1].start = 0
    /\ sequences[1].end = Len(nodes) - 1
    /\ sequences[1].count = Len(nodes)

\* findAllSimilarSequences has returned for MaxLen identical siblings
C4_IdenticalSiblingsDone ==
  pc = "done" /\ IdenticalSiblings /\ Len(nodes) = MaxLen /\ Len(sequences) = 1

\* the siblings at the given original indices are within the threshold of
\* one another
MutuallySimilar(indices) ==
  \A k1, k2 \in indices : areSimilar(At(nodes, k1), At(nodes, k2), 3)

\* 7 siblings: 0-2 within threshold of one another, 3 beyond threshold from
\* every other sibling, 4-6 within threshold of one another
TwoTriples ==
  /\ Len(nodes) = 7
  /\ MutuallySimilar(0..2)
  /\ MutuallySimilar(4..6)
  /\ \A k \in (0..6) \ {3} : ~areSimilar(At(nodes, 3), At(nodes, k), 3)

\* C5: for 7 siblings that are two similar triples around a dissimilar
\* sibling 3, findAllSimilarSequences returns exactly two runs, each of count
\* 3, one covering indices 0-2 and one covering indices 4-6, with no member
\* in common and sibling 3 in neither.
C5_TwoTriplesTwoRuns ==
  (pc = "done" /\ TwoTriples) =>
    /\ Len(sequences) = 2
    /\ \A r \in 1..2 : sequences[r].count = 3
    /\ \E r1, r2 \in 1..2 :
         /\ sequences[r1].start = 0 /\ sequences[r1].end = 2
         /\ members[r1] = 0..2
         /\ sequences[r2].start = 4 /\ sequences[r2].end = 6
         /\ members[r2] = 4..6

\* C6: findAllSimilarSequences terminates on every sibling list of N nodes,
\* its main loop executes at most ceil(N/3) iterations (0 for N = 0), and
\* every iteration that does not exit the loop claims at least 3 previously
\* unclaimed siblings.
C6_TerminatesWithinBound ==
  /\ [](iterations <= (Len(nodes) + 2) \div 3)
  /\ [][FoldRun => Cardinality(processed') >= Cardinality(processed) + 3]_vars
  /\ (call = "findAllSimilarSequences" ~> pc = "done")

\* the main loop has run ceil(N/3) = 2 times on N = 6 siblings and returned
C6_BoundReached == pc = "done" /\ Len(nodes) = 6 /\ iterations = 2

\* the number of siblings a..m-1 of ns within the threshold of sibling a
CountedBefore(ns, a, m) ==
  Cardinality({k \in a..(m - 1) : areSimilar(At(ns, a), At(ns, k), 3)})

\* scanning ns from anchor a meets a sibling beyond the threshold before
\* three within-threshold members (the anchor included) have been counted
BreaksEarly(ns, a) ==
  \E m \in (a + 1)..(Len(ns) - 1) :
    /\ ~areSimilar(At(ns, a), At(ns, m), 3)
    /\ CountedBefore(ns, a, m) < 3

\* C7: if the scan from an anchor meets a sibling beyond the threshold before
\* three members have been counted, the window is abandoned and no run
\* starting at that anchor is recorded; once three have been counted, the
\* first beyond-threshold sibling ends the extension, so the recorded run
\* does not reach beyond it.
C7_EarlyBreakAbandonsWindow ==
  (pc \in {"scan", "returned"} /\ maxLen >= 3) =>
    /\ ~BreaksEarly(list, bestStart)
    /\ \A m \in (bestStart + 1)..bestEnd :
         \/ areSimilar(At(list, bestStart), At(list, m), 3)
         \/ CountedBefore(list, bestStart, m) < 3

\* C8: for every sibling list with fewer than 3 nodes findSimilarSequence
\* returns none and findAllSimilarSequences returns an empty list.
C8_ShortListNoRun ==
  Len(nodes) < 3 =>
    /\ (pc = "returned" => result = null)
    /\ (pc = "done" => sequences = <<>>)

\* findSimilarSequence has returned for a list of 2 siblings
C8_ShortListReturned ==
  Len(nodes) = 2 /\ call = "findSimilarSequence" /\ pc = "returned"

\* every sibling of the returned run is within the threshold of the anchor
NoneSkipped ==
  \A k \in result[1].start..result[1].end :
    areSimilar(At(list, result[1].start), At(list, k), 3)

RunFrom(ns, a) ==
  ScanFromAnchor(ns, a, [k \in {} |-> 0],
                 [maxLen |-> 0, bestStart |-> 0, bestEnd |-> 0,
                  bestBaseHash |-> 0])

\* C10: findSimilarSequence returns a run whose length is the greatest among
\* the runs found from all anchors, and among the anchors that yield runs of
\* that greatest length the one with the smallest start index is returned.
C10_LongestRunSmallestStart ==
  pc = "returned" =>
    LET anchors == {a \in 0..(Len(list) - 3) : RunFrom(list, a).maxLen >= 3}
        length(a) == RunFrom(list, a).bestEnd - a + 1
    IN IF anchors = {} THEN result = null
       ELSE /\ result # null
            /\ result[1].start \in anchors
            /\ \A a \in anchors :
                 /\ length(a) <= result[1].end - result[1].start + 1
                 /\ length(a) = result[1].end - result[1].start + 1
                      => result[1].start <= a

\* C11: every run returned by findAllSimilarSequences has count >= 3 (and is
\* made of at least 3 siblings); no run of one or two siblings is reported.
C11_RunsHaveThreeMembers ==
  \A r \in 1..Len(sequences) :
    /\ sequences[r].count >= 3
    /\ Cardinality(members[r]) >= 3

\* findAllSimilarSequences has returned a run of exactly three siblings
C11_RunOfThreeReturned ==
  pc = "done" /\ \E r \in 1..Len(sequences) : sequences[r].count = 3

\* C12: hammingDistance(a, b) = hammingDistance(b, a) for all 32-bit
\* fingerprints a and b, and hammingDistance(a, a) = 0: the value a call
\* returns is the distance of its arguments taken in the other order, and is
\* 0 when the two arguments are the same fingerprint.
C12_SymmetricZeroOnSelf ==
  (call = "hammingDistance" /\ pc = "returned") =>
    /\ hd.ret = hammingDistance(hd.hash2, hd.hash1)
    /\ hd.hash1 = hd.hash2 => hd.ret = 0

\* a call on two different fingerprints, one of them negative, has returned
C12_DistinctPairReturned ==
  /\ call = "hammingDistance" /\ pc = "returned"
  /\ hd.hash1 < 0 /\ hd.hash2 > 0
  /\ hd.ret > 0

\* the number of bit positions 0..31 at which a and b differ
Differing(a, b) ==
  Cardinality({bit \in 0..(HASH_BITS - 1) : Bit(a, bit) # Bit(b, bit)})

\* C13: for all 32-bit fingerprints a and b, those with bit 31 set (negative
\* as signed integers) included, hammingDistance(a, b) terminates and returns
\* the number of bit positions 0..31 at which a and b differ, a value in
\* 0..32: count never leaves 0..32, the value returned is the number of
\* differing positions, and every call returns.
C13_CountsDifferingBits ==
  /\ [](hd.count \in 0..HASH_BITS)
  /\ []((call = "hammingDistance" /\ pc = "returned") =>
          /\ hd.ret = Differing(hd.hash1, hd.hash2)
          /\ hd.ret \in 0..HASH_BITS)
  /\ <>(call = "hammingDistance" /\ pc = "returned")

\* a call on a negative and a non-negative fingerprint that differ in all 32
\* positions has returned
C13_AllBitsDifferReturned ==
  /\ call = "hammingDistance" /\ pc = "returned"
  /\ hd.hash1 < 0 /\ hd.hash2 >= 0
  /\ hd.ret = HASH_BITS

\* C14: for every node, computeHash returns an unsigned 32-bit integer, never
\* a negative number, also when bit 31 of the fingerprint is set: the value
\* a call returns and every value held by the cache is at least 0.  (The
\* upper end 2^32 - 1 holds of every value built from bits 0..31.)
C14_FingerprintUnsigned ==
  /\ call = "computeHash" => ch.ret >= 0
  /\ \A id \in DOMAIN hashCache : hashCache[id] >= 0

\* C15: calling computeHash twice on the same node of an unchanged tree, with
\* no clearCache in between, returns identical values, and the second call
\* does not change the cache: a call on a node that was hashed since the
\* cache was last cleared returns the value returned then and leaves
\* hashCache as it was.
C15_SecondCallSameValue ==
  [][(call' = "computeHash" /\ ch'.again) =>
       /\ ch'.ret = ch.returned[ch'.node.id]
       /\ hashCache' = hashCache]_vars

\* a node has been hashed a second time, with other nodes in the cache
C15_HashedAgain ==
  /\ call = "computeHash" /\ ch.again
  /\ ch.ret # 0
  /\ Cardinality(DOMAIN hashCache) > 1

\* the accumulator of bit position bit once every feature of node has been
\* added: + weight where the bit of the feature's hash is 1, - weight where
\* it is 0
Accumulator(node, bit) ==
  LET features == extractFeatures(node)
      hashes == [k \in 1..Len(features) |-> djb2Hash(features[k])]
  IN Vector(features, hashes, Len(features), bit)

\* C16: for every node and every bit position i in 0..31, bit i of
\* computeHash(node) is 1 iff the sum over the node's features of + weight
\* (bit i of the feature's hash is 1) or - weight (it is 0) is strictly
\* greater than 0; a sum of exactly 0 yields bit 0.
C16_BitSetIffSumPositive ==
  call = "computeHash" =>
    \A bit \in 0..(HASH_BITS - 1) :
      Bit(ch.ret, bit) = 1 <=> Accumulator(ch.node, bit) > 0

\* a node has been hashed whose accumulator is exactly 0 at one bit position,
\* positive at another and negative at a third
C16_ZeroSumHashed ==
  /\ call = "computeHash"
  /\ \E bit \in 0..(HASH_BITS - 1) :
       Accumulator(ch.node, bit) = 0 /\ Bit(ch.ret, bit) = 0
  /\ \E bit \in 0..(HASH_BITS - 1) : Accumulator(ch.node, bit) > 0
  /\ \E bit \in 0..(HASH_BITS - 1) : Accumulator(ch.node, bit) < 0

\* C17: for every node, with or without children and whatever its type
\* label, computeHash applies weight 5 to the skeleton feature, 3 to the
\* shape feature, 2 to the depth feature and 1 to the type-count and
\* interactive features.
C17_WeightsByFeature ==
  call = "computeHash" =>
    LET features == extractFeatures(ch.node)
    IN /\ getWeight(getSkeletonSignature(ch.node)) = 5
       /\ getWeight(getShapeSignature(ch.node)) = 3
       /\ getWeight(features[Len(features)]) = 2
       /\ getWeight(getTypeCountSignature(ch.node)) = 1
       /\ \A k \in 4..(Len(features) - 1) : getWeight(features[k]) = 1

\* the lines of the folded groups are all still to be emitted
GroupLinesKept ==
  \A p \in 1..Len(gen.folded) :
    gen.folded[p].kind # "node" =>
      \E q \in 1..Len(gen.lines) : gen.lines[q] = gen.folded[p]

\* the line of the parent of every child line still to be emitted is still to
\* be emitted
ParentsKept ==
  \A q \in 1..Len(gen.lines) :
    gen.lines[q].child # 0 =>
      \E p \in 1..Len(gen.lines) :
        gen.lines[p].at = gen.lines[q].at /\ gen.lines[p].child = 0

\* the step drops a droppable line no droppable line has a lower priority than
DropsLowest ==
  \E p \in Droppable(gen.lines) :
    /\ gen'.lines = Without(gen.lines, p)
    /\ \A q \in Droppable(gen.lines) :
         gen.lines[q].priority >= gen.lines[p].priority

MemberTokens(group) ==
  LET member == [k \in 1..group.count |-> group.startLine + k - 1]
      marked == SelectSeq(member, LAMBDA k : k \notin gen.noRef)
  IN [k \in 1..Len(marked) |-> At(nodes, marked[k]).line.ref]

\* the position of the synthetic line of a group among the lines
FoldLineOf(group) ==
  CHOOSE p \in 1..Len(gen.lines) :
    gen.lines[p].kind = "fold" /\ gen.lines[p].at = group.firstElement

Unmarked(group) == (group.startLine..group.endLine) \cap gen.noRef

\* 1 <= sample count <= min(3, member count), and member count >= 3
SamplesAndCountBounded(group) ==
  /\ 1 <= Len(group.samples)
  /\ Len(group.samples) <= 3
  /\ Len(group.samples) <= group.count
  /\ group.count >= 3

Seen(k, Test(_)) == {p \in 1..(k - 1) : Test(tb.depths[p])}

\* the greatest of a non-empty set of line numbers, 0 for the empty set
Latest(lines) ==
  IF lines = {} THEN 0 ELSE CHOOSE p \in lines : \A q \in lines : q <= p

\* every attached line has one parent entry, each line is a child of its
\* parent and of no other node, and children are in line order
OneParentInLineOrder ==
  /\ Len(tb.parent) = tb.k
  /\ \A k \in 1..tb.k : \A p \in 0..Len(tb.depths) :
       (\E c \in 1..Len(tb.children[p]) : tb.children[p][c] = k)
         <=> p = tb.parent[k]
  /\ \A p \in 0..Len(tb.depths) : \A c \in 1..(Len(tb.children[p]) - 1) :
       tb.children[p][c] < tb.children[p][c + 1]

\* C21 as stated: for every outline text, non-monotonic depth jumps included,
\* each line of depth D is attached as the last child of the most recently
\* seen node of depth D - 1, or as a new root when no such node exists;
\* every non-root node has exactly one parent and child order is line order.
C21_ParentIsLatestOfDepthBelow ==
  tb.phase \in {"build", "built"} =>
    /\ \A k \in 1..tb.k :
         tb.parent[k]
           = Latest(Seen(k, LAMBDA d : d = tb.depths[k] - 1))
    /\ OneParentInLineOrder

\* C21, amended: each line is attached as the last child of the nearest
\* preceding line that is shallower than it (the most recently seen node of
\* depth D - 1 when depths grow by at most one), or as a new root when there
\* is none; every
\* non-root node has exactly one parent, child order is line order, and
\* every line of every outline is attached.
C21_ParentIsNearestShallower ==
  tb.phase \in {"build", "built"} =>
    /\ \A k \in 1..tb.k :
         tb.parent[k] = Latest(Seen(k, LAMBDA d : d < tb.depths[k]))
    /\ OneParentInLineOrder
    /\ tb.phase = "built" => tb.k = Len(tb.depths)

\* an outline has been built in which a line is more than one level deeper
\* than the line before it and is attached to that line
C21_DepthJumpBuilt ==
  /\ tb.phase = "built"
  /\ \E k \in 2..tb.k :
       /\ tb.depths[k] > tb.depths[k - 1] + 1
       /\ tb.parent[k] = k - 1

\* the surviving nodes below node p in document order
RECURSIVE Preorder(_, _)
Preorder(t, p) ==
  LET below[c \in 0..Len(t.children[p])] ==
        IF c = 0 THEN <<>>
        ELSE below[c - 1] \o Preorder(t, t.children[p][c])
  IN (IF p = 0 THEN <<>> ELSE <<p>>) \o below[Len(t.children[p])]

\* the surviving nodes are all in the tree, in the order of their lines
InLineOrder(t) ==
  LET order == Preorder(t, 0)
  IN /\ {order[c] : c \in 1..Len(order)} = (1..t.k) \ t.removed
     /\ \A c \in 1..(Len(order) - 1) : order[c] < order[c + 1]

\* the step elides one node, whose child takes its position
ElidesOne ==
  \E w \in Wrappers(tb) :
    /\ tb'.removed = tb.removed \cup {w}
    /\ Cardinality(tb'.removed) = Cardinality(tb.removed) + 1
    /\ \A c \in 1..Len(tb.children[tb.parent[w]]) :
         tb'.children[tb.parent[w]][c]
           = IF tb.children[tb.parent[w]][c] = w THEN tb.children[w][1]
             ELSE tb.children[tb.parent[w]][c]

\* C22: wrapper removal terminates on every tree, each pass strictly
\* decreasing the node count; it leaves no node that has no own text, no
\* type-significant role and exactly one child; and it preserves the relative
\* document order of all surviving nodes, each spliced child taking its
\* removed parent's position.
C22_WrapperRemoval ==
  /\ <>(tb.phase = "clean")
  /\ [][tb.phase = "built" /\ tb'.phase = "built" /\ tb' # tb
          => ElidesOne]_vars
  /\ [](tb.phase = "clean" => Wrappers(tb) = {})
  /\ [](tb.phase \in {"built", "clean"} => InLineOrder(tb))

\* wrapper removal is over on a tree from which a wrapper with a later
\* sibling and a wrapper inside a wrapper were elided
C22_NestedWrappersRemoved ==
  /\ tb.phase = "clean"
  /\ \E w \in tb.removed : \E v \in tb.removed :
       /\ w < v
       /\ tb.depths[w] < tb.depths[v]
  /\ \E w \in tb.removed : \E n \in (1..tb.k) \ tb.removed :
       n > w /\ tb.depths[n] = tb.depths[w]

C24_InvalidPatternReported ==
  (search.pattern = "invalid" /\ search.snapshot # <<>>) =>
    /\ search.phase \in {"returned", "handled"} =>
         search.response[1].result = <<[error |-> SyntaxErrorMessage]>>
    /\ search.phase = "handled" =>
         \E k \in 1..Len(search.text.body) :
           search.text.body[k] = [error |-> SyntaxErrorMessage]

\* the lines of a result that are lines of the snapshot
LinesOf(found) == SelectSeq(found.result, LAMBDA r : DOMAIN r = {"line"})

\* C30: for every snapshot and every lineLimit value, searchSnapshot returns
\* at most 100 matching lines; when the number of matching lines exceeds
\* L = min(lineLimit, 100) it returns exactly the first L matching lines
\* followed by one '<...k more results...>' line with k = matches - L and
\* truncated = true, otherwise all matching lines with truncated = false;
\* matchCount always equals the total number of matching lines.
C30_AtMostLimitLines ==
  (search.phase = "returned" /\ search.pattern = "valid") =>
    LET found == search.response[1]
        matching == matchingLines(search.snapshot[1])
        L == Min(search.lineLimit, maxAllowed)
    IN /\ Len(LinesOf(found)) <= maxAllowed
       /\ found.matchCount = Len(matching)
       /\ IF Len(matching) > L
          THEN /\ L >= 0
               /\ Len(found.result) = L + 1
               /\ \A k \in 1..L : found.result[k] = matching[k]
               /\ found.result[L + 1] = [more |-> Len(matching) - L]
               /\ found.truncated
          ELSE found.result = matching /\ ~found.truncated

\* the last call was browser_execute with a script of the given kind
Executed(kind) ==
  /\ exec.phase = "serving"
  /\ exec.last.op = "browser_execute"
  /\ exec.last.code.kind = kind

\* C25: a property written to state by a browser_execute call is read by
\* every later call until the browser is closed, and once closeBrowser has
\* run the state object is empty, on every launch path
C25_StateLastsUntilClose ==
  /\ Executed("read") =>
       exec.vm[1].result = exec.written[exec.last.code.key]
  /\ (exec.phase = "serving" /\ exec.last.op = "closeBrowser") =>
       exec.userState = EmptyState

\* the response text holds "Error: m" in full
HoldsError(shown, m) ==
  \E k \in 1..Len(shown) :
    shown[k].part = "Error: " /\ shown[k].says = m /\ shown[k].whole

\* C26: a script that throws an error with message m gets a response with
\* isError = true whose text contains "Error: m", whatever it has logged to
\* the console before
C26_ThrownErrorReported ==
  Executed("throw") =>
    /\ exec.response.isError
    /\ HoldsError(exec.response.text, exec.last.code.message)

\* the response text states that the execution timed out
StatesTimeout(shown, timeout) ==
  \/ HoldsError(shown, CodeExecutionTimeoutError(timeout).message)
  \/ HoldsError(shown, ScriptTimeoutError(timeout).message)

\* C27: a script that has not completed after timeout milliseconds gets its
\* response then, with isError = true and a text stating the timeout; a
\* script that completes earlier is never reported as timed out
C27_TimeoutReported ==
  Executed("run") =>
    IF exec.last.code.duration > exec.last.timeout
    THEN /\ exec.response.elapsed = exec.last.timeout
         /\ exec.response.isError
         /\ StatesTimeout(exec.response.text, exec.last.timeout)
    ELSE /\ ~exec.response.isError
         /\ ~StatesTimeout(exec.response.text, exec.last.timeout)

\* a path lies in a directory when it leads to it or beneath it
LiesIn(names, dirNames) ==
  /\ Len(dirNames) <= Len(names)
  /\ SubSeq(names, 1, Len(dirNames)) = dirNames

\* a path of a call leads to an allowed directory or beneath one
InAllowedDir(filePath) ==
  \E d \in sfs.dirs :
    LiesIn(resolvedNames(sfs.fs.cwd, filePath),
           resolvedNames(sfs.fs.cwd, d))

\* C28: a ScopedFS method called with a path outside the allowed directories
\* throws EPERM and calls nothing of fs (existsSync and exists answer
\* false); a path is allowed exactly when it is an allowed directory or lies
\* beneath one; a two-path method calls fs only if both paths are allowed
C28_OnlyAllowedPathsReachFs ==
  (sfs.phase = "fs" /\ sfs.last # <<>>) =>
    LET method == sfs.last[1].method
        paths == sfs.last[1].paths
    IN IF \A k \in 1..Len(paths) : InAllowedDir(paths[k])
       THEN /\ sfs.outcome.threw = ""
            /\ sfs.outcome.fsCalls =
                 <<[fn |-> method,
                    paths |-> [k \in 1..Len(paths) |->
                                 resolve(sfs.fs.cwd, paths[k])]]>>
       ELSE /\ sfs.outcome.fsCalls = <<>>
            /\ IF method \in {"existsSync", "exists"}
               THEN sfs.outcome.threw = "" /\ sfs.outcome.answer = "false"
               ELSE sfs.outcome.threw = "EPERM"

\* C29: in the sandbox require(id) throws ModuleNotAllowedError and loads
\* nothing for an id the allowlist does not hold, and for 'fs' and 'node:fs'
\* it returns the ScopedFS instance without loading the real fs
C29_RequireGuarded ==
  sfs.phase = "require" =>
    \A k \in 1..Len(sfs.required) :
      LET r == sfs.required[k]
      IN /\ r.id \notin ALLOWED_MODULES =>
              /\ r.threw = "ModuleNotAllowedError"
              /\ r.returned = ""
              /\ r.loaded = <<>>
         /\ r.id \in {"fs", "node:fs"} =>
              /\ r.threw = ""
              /\ r.returned = "scopedFs"
              /\ r.loaded = <<>>

\* a script has required a module that is not allowed, then 'node:fs'
C29_BlockedThenNodeFs ==
  /\ sfs.phase = "require"
  /\ Len(sfs.required) = MaxRequires
  /\ sfs.required[1].id = "child_process"
  /\ sfs.required[1].threw = "ModuleNotAllowedError"
  /\ sfs.required[2].id = "node:fs"
  /\ sfs.required[2].returned = "scopedFs"

\* C32: three siblings searched under the configured fold threshold t are a
\* run exactly when the second and the third are within distance t of the
\* first, for every t
C32_ConfiguredThresholdDecides ==
  (call = "findSimilarSequence" /\ pc = "returned" /\ Len(nodes) = 3) =>
    (result # null <=>
       \A k \in 2..3 :
         distanceOf(freshHash(nodes[1]), freshHash(nodes[k]))
           <= gen.foldThreshold)

\* C33: computeHash on a node that was hashed since the cache was last
\* cleared returns the value returned then, whatever the caller has changed
\* of the node in between; the first call on a node after clearCache returns
\* the fingerprint of the node as it is now
C33_MemoizedUntilCleared ==
  [][call' = "computeHash" =>
       IF ch'.again
       THEN ch'.ret = ch.returned[ch'.node.id]
       ELSE ch'.ret = freshHash(ch'.node)]_vars

\* a node hashed, changed and hashed again has got the fingerprint of what it
\* was, which is not the fingerprint of what it is
C33_StaleFingerprint ==
  /\ call = "computeHash"
  /\ ch.again
  /\ ch.ret # freshHash(ch.node)

\* the siblings no returned run has claimed, in their original order
Unclaimed ==
  LET map == Collect(nodes, processed, Len(nodes))
  IN [k \in 1..Len(map) |-> At(nodes, map[k])]

\* C34: when findAllSimilarSequences returns, fewer than 3 siblings are left
\* unclaimed, or findSimilarSequence finds no run among the unclaimed
\* siblings taken in their original order
C34_NoRunLeftBehind ==
  (call = "findAllSimilarSequences" /\ pc = "done") =>
    \/ Len(Unclaimed) < 3
    \/ \A a \in 0..(Len(Unclaimed) - 3) : RunFrom(Unclaimed, a).maxLen < 3

\* findAllSimilarSequences has returned a run and left three or more siblings
\* unclaimed
C34_RunAndLeftovers ==
  /\ call = "findAllSimilarSequences"
  /\ pc = "done"
  /\ Len(sequences) >= 1
  /\ Len(Unclaimed) >= 3

\* what the claim calls the structure of a node: the type labels and the
\* shape of its subtree
RECURSIVE TypeTree(_)
TypeTree(node) ==
  [type |-> node.type,
   children |-> [k \in 1..Len(node.children) |->
                   TypeTree(node.children[k])]]

\* two nodes have the same structure and their own lines agree on the
\* [cursor=pointer] marker
SameStructure(node1, node2) ==
  /\ TypeTree(node1) = TypeTree(node2)
  /\ LineIncludes(node1.line, CursorPointer)
       <=> LineIncludes(node2.line, CursorPointer)

\* C35: two nodes of the same structure whose own lines agree on the
\* [cursor=pointer] marker get equal fingerprints, at Hamming distance 0,
\* whatever the text and the reference token of their lines
C35_FingerprintOfStructureOnly ==
  call = "computeHash" =>
    \A id1, id2 \in DOMAIN ch.returned :
      SameStructure(At(nodes, id1), At(nodes, id2)) =>
        /\ ch.returned[id1] = ch.returned[id2]
        /\ hammingDistance(ch.returned[id1], ch.returned[id2]) = 0

\* two nodes of the same structure have been hashed whose lines differ in
\* text and reference token, and a third of another structure
C35_SameStructureOtherText ==
  /\ call = "computeHash"
  /\ \E id1, id2, id3 \in DOMAIN ch.returned :
       /\ SameStructure(At(nodes, id1), At(nodes, id2))
       /\ At(nodes, id1).line.text # At(nodes, id2).line.text
       /\ At(nodes, id1).line.ref # At(nodes, id2).line.ref
       /\ ch.returned[id3] # ch.returned[id1]

\* the n most recent of the entries 1..upTo, in the order of arrival
MostRecent(n, upTo) == [k \in 1..n |-> upTo - n + k]

\* the entries stored for a page: none if the store has no buffer for it
StoredFor(p) ==
  IF p \in DOMAIN browserLogs.store THEN browserLogs.store[p] ELSE <<>>

\* C31: for every page with a console listener the stored buffer holds at
\* most 5000 entries, and when more than 5000 messages have arrived since the
\* last clear it holds exactly the 5000 most recent ones in arrival order
C31_BufferHoldsMostRecent ==
  browserLogs.phase = "pages" =>
    \A p \in browserLogs.listening :
      /\ Len(StoredFor(p)) <= MAX_LOGS_PER_PAGE
      /\ browserLogs.sinceClear[p] > MAX_LOGS_PER_PAGE =>
           StoredFor(p) = MostRecent(MAX_LOGS_PER_PAGE, browserLogs.arrived[p])

\* C37: a console message emitted by an open page whose listener has been
\* set up is appended to the page's buffer, also after clearAllLogs
C37_MessageCapturedAfterClear ==
  (browserLogs.phase = "pages" /\ browserLogs.last.event = "console") =>
    LET p == browserLogs.last.page
    IN /\ StoredFor(p) # <<>>
       /\ StoredFor(p)[Len(StoredFor(p))] = browserLogs.arrived[p]

\* ---------------------------------------------------------------------------
\* C38: a browser_network_requests call with includeStatic: true reports the
\* static-resource requests issued since the capture began on the page (and
\* not cleared since), whatever includeStatic the call that started the
\* capture passed.
\* ---------------------------------------------------------------------------

IsStatic(resourceType) == resourceType \in STATIC_RESOURCE_TYPES

C38_StaticReportedOnRequest ==
  (capture.phase = "capture" /\ capture.last.event = "report"
     /\ capture.last.includeStatic = "true"
     /\ Len(capture.last.issued) <= DefaultLimit)
    => SelectSeq(capture.last.reported, IsStatic)
         = SelectSeq(capture.last.issued, IsStatic)

\* ---------------------------------------------------------------------------
\* C36: under any interleaving of concurrent getPage/launchBrowser calls issued
\* while no page exists, at most one browser is launched, every call returns
\* the same page, and no launched browser is left unreferenced.
\* ---------------------------------------------------------------------------

Returned == {k \in Callers : mgr.calls[k].at = "done"}

C36_OneLaunchOnePage ==
  mgr.phase = "launch" =>
    /\ Cardinality(mgr.launched) <= 1
    /\ \A k1, k2 \in Returned : mgr.calls[k1].returned = mgr.calls[k2].returned
    /\ (Returned = Callers => mgr.launched \subseteq {mgr.browser})

\* ---------------------------------------------------------------------------
\* C39: after any sequence of showAriaRefLabels and hideAriaRefLabels calls a
\* page has at most one label container and at most one pending auto-hide
\* timer; the labels shown are eventually removed, by hideAriaRefLabels or by
\* the timer `timeout` after the latest show; and a timer armed by an earlier
\* show never removes the labels of a later show.
\* ---------------------------------------------------------------------------

LabelsShown == labels.phase = "labels" /\ labels.containers # <<>>

LabelsRemoved == labels.phase = "labels" /\ labels.containers = <<>>

OneContainerOneTimer ==
  labels.phase = "labels" =>
    /\ Len(labels.containers) <= 1
    /\ Cardinality(labels.timers) <= 1

\* the labels on the page are those of the latest show, and the one pending
\* timer is theirs, due `timeout` after that show and not overdue
TimerOfLatestShow ==
  LabelsShown =>
    /\ labels.containers = <<labels.shows>>
    /\ labels.timers = {[id |-> labels.shows,
                         due |-> labels.shownAt + labels.timeout]}
    /\ labels.now <= labels.shownAt + labels.timeout

TimerRemovesOwnLabels ==
  (labels.phase = "labels" /\ labels.last.event = "timer"
     /\ labels.last.removed # 0)
    => labels.last.removed = labels.last.timer

C39_LabelsRemovedByOwnTimer ==
  /\ [](OneContainerOneTimer /\ TimerOfLatestShow /\ TimerRemovesOwnLabels)
  /\ (LabelsShown ~> LabelsRemoved)

\* the timer of a second show has removed that show's labels
C39_LaterTimerFired ==
  /\ labels.phase = "labels"
  /\ labels.last.event = "timer"
  /\ labels.last.timer >= 2
  /\ labels.last.removed = labels.last.timer

\* ---------------------------------------------------------------------------
\* C40: browser_search_snapshot answers 'No snapshot available...' without
\* evaluating the pattern whenever no snapshot has been captured since the
\* manager was created or last closed; otherwise it searches the raw text of
\* the most recently captured snapshot, not an older one.
\* ---------------------------------------------------------------------------

C40_SearchesLatestSnapshot ==
  (mgr.phase = "snapshot" /\ mgr.last.event = "search") =>
    IF mgr.taken = <<>>
      THEN mgr.last.header = "No snapshot available" /\ mgr.last.response = <<>>
      ELSE mgr.last.response # <<>> /\ mgr.last.searched = mgr.taken

====
